---- MODULE Spec2Model ----
(***************************************************************************)
(* Response normalization and canonicalization engine of lyzr-pgm.         *)
(*                                                                         *)
(* Texts are sequences of one-character strings, so that json.loads,       *)
(* ast.literal_eval, the two regular expressions, the unicode_escape       *)
(* codec and str.lower() are computed character by character.  Python      *)
(* values are tagged records [t, v]:                                       *)
(*   str   v = text              none  v = 0                               *)
(*   num   v = integer           bool  v = BOOLEAN                         *)
(*   float v = tenths            list  v = sequence of values              *)
(*   dict  v = function from key texts to values                           *)
(***************************************************************************)
EXTENDS Integers, Sequences, FiniteSets, TLC

(***************************************************************************)
(* Texts                                                                   *)
(***************************************************************************)
UpperChars == <<"A","B","C","D","E","F","G","H","I","J","K","L","M",
                "N","O","P","Q","R","S","T","U","V","W","X","Y","Z">>

LowerChars == <<"a","b","c","d","e","f","g","h","i","j","k","l","m",
                "n","o","p","q","r","s","t","u","v","w","x","y","z">>

DigitChars == <<"0","1","2","3","4","5","6","7","8","9">>

IsDigit(c) == \E i \in 1..10 : DigitChars[i] = c

DigitVal(c) == (CHOOSE i \in 1..10 : DigitChars[i] = c) - 1

\* str.lower() on one character
LowerChar(c) ==
    IF \E i \in 1..26 : UpperChars[i] = c
    THEN LowerChars[CHOOSE i \in 1..26 : UpperChars[i] = c]
    ELSE c

\* str.lower()
Lower(s) == [i \in 1..Len(s) |-> LowerChar(s[i])]

StartsWithAt(t, i, p) ==
    /\ i >= 1
    /\ i + Len(p) - 1 <= Len(t)
    /\ \A j \in 1..Len(p) : t[i + j - 1] = p[j]

\* the Python test  p in t  on strings
InText(p, t) == \E i \in 1..(Len(t) + 1) : StartsWithAt(t, i, p)

RECURSIVE ConcatRange(_, _, _)
\* pieces[lo] \o ... \o pieces[hi], by halving
ConcatRange(pieces, lo, hi) ==
    IF lo > hi THEN <<>>
    ELSE IF lo = hi THEN pieces[lo]
    ELSE LET mid == (lo + hi) \div 2
         IN  ConcatRange(pieces, lo, mid) \o ConcatRange(pieces, mid + 1, hi)

\* the concatenation of a sequence of texts
Flatten(pieces) == ConcatRange(pieces, 1, Len(pieces))

\* str.replace(c, r) for a one-character c
ReplaceChar(s, c, r) == Flatten([i \in 1..Len(s) |-> IF s[i] = c THEN r ELSE <<s[i]>>])

RECURSIVE LastOther(_, _, _, _)
\* the last position in lo..hi holding a character other than c, lo - 1 if
\* there is none
LastOther(t, c, lo, hi) ==
    IF lo > hi THEN lo - 1
    ELSE IF lo = hi THEN (IF t[lo] # c THEN lo ELSE lo - 1)
    ELSE LET Pick(mid, r) == IF r > mid THEN r ELSE LastOther(t, c, lo, mid)
         IN  Pick((lo + hi) \div 2, LastOther(t, c, ((lo + hi) \div 2) + 1, hi))

\* the number of consecutive backslashes that end at position j, not before lo
CountBs(t, j, lo) == j - LastOther(t, "\\", lo, j)

\* position j follows an odd run of backslashes that starts at or after lo
IsEscaped(t, j, lo) == CountBs(t, j - 1, lo) % 2 = 1

RECURSIVE FirstPlain(_, _, _, _, _)
\* the first position in lo..hi holding an unescaped c, 0 if there is none;
\* escapes are counted from position start
FirstPlain(t, c, start, lo, hi) ==
    IF lo > hi THEN 0
    ELSE IF lo = hi THEN (IF t[lo] = c /\ ~IsEscaped(t, lo, start) THEN lo ELSE 0)
    ELSE LET Pick(mid, l) == IF l # 0 THEN l ELSE FirstPlain(t, c, start, mid + 1, hi)
         IN  Pick((lo + hi) \div 2, FirstPlain(t, c, start, lo, (lo + hi) \div 2))

RECURSIVE FirstChar(_, _, _, _)
\* the first position in lo..hi holding c, 0 if there is none
FirstChar(t, c, lo, hi) ==
    IF lo > hi THEN 0
    ELSE IF lo = hi THEN (IF t[lo] = c THEN lo ELSE 0)
    ELSE LET Pick(mid, l) == IF l # 0 THEN l ELSE FirstChar(t, c, mid + 1, hi)
         IN  Pick((lo + hi) \div 2, FirstChar(t, c, lo, (lo + hi) \div 2))

(***************************************************************************)
(* Python values                                                           *)
(***************************************************************************)
VStr(s) == [t |-> "str", v |-> s]

VNone == [t |-> "none", v |-> 0]

VNum(n) == [t |-> "num", v |-> n]

VBool(b) == [t |-> "bool", v |-> b]

VFloat10(n) == [t |-> "float", v |-> n]

VList(xs) == [t |-> "list", v |-> xs]

VDict(f) == [t |-> "dict", v |-> f]

EmptyDict == VDict(<<>>)

IsStr(x) == x.t = "str"

IsDict(x) == x.t = "dict"

IsList(x) == x.t = "list"

\* key in d
HasKey(d, k) == k \in DOMAIN d.v

\* d.get(k, default)
Get(d, k, default) == IF k \in DOMAIN d.v THEN d.v[k] ELSE default

\* d[k] = x on a copy
Put(d, k, x) == VDict([kk \in (DOMAIN d.v) \cup {k} |-> IF kk = k THEN x ELSE d.v[kk]])

\* Python truthiness:  not x
Falsy(x) ==
    \/ x.t = "none"
    \/ x.t = "num" /\ x.v = 0
    \/ x.t = "float" /\ x.v = 0
    \/ x.t = "bool" /\ x.v = FALSE
    \/ x.t \in {"str", "list"} /\ Len(x.v) = 0
    \/ x.t = "dict" /\ DOMAIN x.v = {}

(***************************************************************************)
(* json.loads and ast.literal_eval: one recursive-descent reader with a    *)
(* mode.  "json" is strict JSON; "py" is the Python literal syntax         *)
(* (either quote, None/True/False, trailing commas, unknown escapes kept). *)
(* Number syntax is restricted to unsigned integers; \u, \x and octal      *)
(* escapes and adjacent-string concatenation are outside the alphabet.     *)
(***************************************************************************)
WsChars == {" ", "\n", "\r", "\t"}

ParseFail == [ok |-> FALSE, val |-> VNone, pos |-> 0]

ParseOk(x, p) == [ok |-> TRUE, val |-> x, pos |-> p]

RECURSIVE SkipWs(_, _)
SkipWs(t, i) == IF i <= Len(t) /\ t[i] \in WsChars THEN SkipWs(t, i + 1) ELSE i

Quotes(mode) == IF mode = "json" THEN {"\""} ELSE {"\"", "'"}

\* literal characters a string token may not contain
BadInString(mode) == IF mode = "json" THEN {"\n", "\r", "\t"} ELSE {"\n", "\r"}

\* the decoded text of the escape  \e ; <<>> with ok FALSE when it is rejected
Escape(mode, e) ==
    CASE e = "n" -> [ok |-> TRUE, txt |-> <<"\n">>]
      [] e = "r" -> [ok |-> TRUE, txt |-> <<"\r">>]
      [] e = "t" -> [ok |-> TRUE, txt |-> <<"\t">>]
      [] e = "\\" -> [ok |-> TRUE, txt |-> <<"\\">>]
      [] e = "\"" -> [ok |-> TRUE, txt |-> <<"\"">>]
      [] e = "/" /\ mode = "json" -> [ok |-> TRUE, txt |-> <<"/">>]
      [] e = "'" /\ mode = "py" -> [ok |-> TRUE, txt |-> <<"'">>]
      [] e = "\n" /\ mode = "py" -> [ok |-> TRUE, txt |-> <<>>]
      [] OTHER -> IF mode = "json" THEN [ok |-> FALSE, txt |-> <<>>]
                  ELSE [ok |-> TRUE, txt |-> <<"\\", e>>]

\* t[i..] is the rest of a string token opened with quote q: the token ends
\* at the first unescaped q; every escape in it must be known to the mode
ScanString(t, i, q, mode) ==
    LET piece(k) ==
            IF IsEscaped(t, k, i) THEN Escape(mode, t[k]).txt
            ELSE IF t[k] = "\\" THEN <<>>
            ELSE <<t[k]>>
        bad(k) ==
            IF IsEscaped(t, k, i) THEN ~Escape(mode, t[k]).ok
            ELSE t[k] \in BadInString(mode)
        Token(e) ==
            IF e = 0 THEN ParseFail
            ELSE IF \E k \in i..(e - 1) : bad(k) THEN ParseFail
            ELSE ParseOk(VStr(Flatten([k \in 1..(e - i) |-> piece(i + k - 1)])), e + 1)
    IN  Token(FirstPlain(t, q, i, i, Len(t)))

RECURSIVE ScanDigits(_, _, _)
ScanDigits(t, i, n) ==
    IF i <= Len(t) /\ IsDigit(t[i]) THEN ScanDigits(t, i + 1, 10 * n + DigitVal(t[i]))
    ELSE ParseOk(VNum(n), i)

\* an unsigned integer; a leading zero may not be followed by a digit
ParseNumber(t, i) ==
    IF t[i] = "0" /\ i + 1 <= Len(t) /\ IsDigit(t[i + 1]) THEN ParseFail
    ELSE ScanDigits(t, i, 0)

KwNull == <<"n","u","l","l">>

KwTrue == <<"t","r","u","e">>

KwFalse == <<"f","a","l","s","e">>

KwPyNone == <<"N","o","n","e">>

KwPyTrue == <<"T","r","u","e">>

KwPyFalse == <<"F","a","l","s","e">>

IsIdentChar(c) == c = "_" \/ IsDigit(c) \/ (\E k \in 1..26 : UpperChars[k] = c \/ LowerChars[k] = c)

\* keyword kw at t[i], not running on into an identifier
KwAt(t, i, kw) ==
    /\ StartsWithAt(t, i, kw)
    /\ ~(i + Len(kw) <= Len(t) /\ IsIdentChar(t[i + Len(kw)]))

ParseKeyword(t, i, mode) ==
    IF mode = "json" THEN
        CASE StartsWithAt(t, i, KwNull) -> ParseOk(VNone, i + 4)
          [] StartsWithAt(t, i, KwTrue) -> ParseOk(VBool(TRUE), i + 4)
          [] StartsWithAt(t, i, KwFalse) -> ParseOk(VBool(FALSE), i + 5)
          [] OTHER -> ParseFail
    ELSE
        CASE KwAt(t, i, KwPyNone) -> ParseOk(VNone, i + 4)
          [] KwAt(t, i, KwPyTrue) -> ParseOk(VBool(TRUE), i + 4)
          [] KwAt(t, i, KwPyFalse) -> ParseOk(VBool(FALSE), i + 5)
          [] OTHER -> ParseFail

RECURSIVE ParseValue(_, _, _)
RECURSIVE ParseMembers(_, _, _, _, _)
RECURSIVE ParseElements(_, _, _, _, _)

\* the value starting at or after t[i]
ParseValue(t, i, mode) ==
    LET At(j) ==
            IF j > Len(t) THEN ParseFail
            ELSE IF t[j] = "{" THEN ParseMembers(t, j + 1, mode, <<>>, "open")
            ELSE IF t[j] = "[" THEN ParseElements(t, j + 1, mode, <<>>, "open")
            ELSE IF t[j] \in Quotes(mode) THEN ScanString(t, j + 1, t[j], mode)
            ELSE IF IsDigit(t[j]) THEN ParseNumber(t, j)
            ELSE ParseKeyword(t, j, mode)
    IN  At(SkipWs(t, i))

\* the members of an object after "{"; st is "open" (nothing read yet),
\* "comma" (just after a comma) or "item" (just after a member)
ParseMembers(t, i, mode, acc, st) ==
    LET AfterValue(k, x) ==
            IF ~x.ok THEN ParseFail
            ELSE ParseMembers(t, x.pos, mode, Put(VDict(acc), k.val.v, x.val).v, "item")
        AfterKey(k, c) ==
            IF c > Len(t) \/ t[c] # ":" THEN ParseFail
            ELSE AfterValue(k, ParseValue(t, c + 1, mode))
        Key(k) == IF ~k.ok THEN ParseFail ELSE AfterKey(k, SkipWs(t, k.pos))
        At(j) ==
            IF j > Len(t) THEN ParseFail
            ELSE IF t[j] = "}" THEN
                IF st = "comma" /\ mode = "json" THEN ParseFail
                ELSE ParseOk(VDict(acc), j + 1)
            ELSE IF st = "item" THEN
                IF t[j] = "," THEN ParseMembers(t, j + 1, mode, acc, "comma") ELSE ParseFail
            ELSE IF t[j] \notin Quotes(mode) THEN ParseFail
            ELSE Key(ScanString(t, j + 1, t[j], mode))
    IN  At(SkipWs(t, i))

\* the elements of an array after "["
ParseElements(t, i, mode, acc, st) ==
    LET Element(x) ==
            IF ~x.ok THEN ParseFail
            ELSE ParseElements(t, x.pos, mode, Append(acc, x.val), "item")
        At(j) ==
            IF j > Len(t) THEN ParseFail
            ELSE IF t[j] = "]" THEN
                IF st = "comma" /\ mode = "json" THEN ParseFail
                ELSE ParseOk(VList(acc), j + 1)
            ELSE IF st = "item" THEN
                IF t[j] = "," THEN ParseElements(t, j + 1, mode, acc, "comma") ELSE ParseFail
            ELSE Element(ParseValue(t, j, mode))
    IN  At(SkipWs(t, i))

\* a whole text holding exactly one value
ParseDocument(t, mode) ==
    LET Whole(x) ==
            IF x.ok /\ SkipWs(t, x.pos) > Len(t) THEN [ok |-> TRUE, val |-> x.val]
            ELSE [ok |-> FALSE, val |-> VNone]
    IN  Whole(ParseValue(t, 1, mode))

\* json.loads(s): raises on a non-string and on invalid JSON
json_loads(s) ==
    IF ~IsStr(s) THEN [ok |-> FALSE, val |-> VNone] ELSE ParseDocument(s.v, "json")

\* ast.literal_eval(s)
literal_eval(s) ==
    IF ~IsStr(s) THEN [ok |-> FALSE, val |-> VNone] ELSE ParseDocument(s.v, "py")

(***************************************************************************)
(* String constants of the source                                          *)
(***************************************************************************)
\* dictionary keys
K ==
    [response |-> <<"r","e","s","p","o","n","s","e">>,
     input |-> <<"i","n","p","u","t">>,
     output |-> <<"o","u","t","p","u","t">>,
     yaml_schema |-> <<"y","a","m","l","_","s","c","h","e","m","a">>,
     workflow_definition |-> <<"w","o","r","k","f","l","o","w","_","d","e","f","i","n","i","t","i","o","n">>,
     workflow_yaml |-> <<"w","o","r","k","f","l","o","w","_","y","a","m","l">>,
     agents |-> <<"a","g","e","n","t","s">>,
     yaml |-> <<"y","a","m","l">>,
     name |-> <<"n","a","m","e">>,
     raw_string |-> <<"r","a","w","_","s","t","r","i","n","g">>,
     template_type |-> <<"t","e","m","p","l","a","t","e","_","t","y","p","e">>,
     description |-> <<"d","e","s","c","r","i","p","t","i","o","n">>,
     agent_role |-> <<"a","g","e","n","t","_","r","o","l","e">>,
     agent_goal |-> <<"a","g","e","n","t","_","g","o","a","l">>,
     agent_instructions |-> <<"a","g","e","n","t","_","i","n","s","t","r","u","c","t","i","o","n","s">>,
     features |-> <<"f","e","a","t","u","r","e","s">>,
     tools |-> <<"t","o","o","l","s">>,
     tool_usage_description |-> <<"t","o","o","l","_","u","s","a","g","e","_","d","e","s","c","r","i","p","t","i","o","n">>,
     response_format |-> <<"r","e","s","p","o","n","s","e","_","f","o","r","m","a","t">>,
     llm_config |-> <<"l","l","m","_","c","o","n","f","i","g">>,
     provider_id |-> <<"p","r","o","v","i","d","e","r","_","i","d">>,
     model |-> <<"m","o","d","e","l">>,
     temperature |-> <<"t","e","m","p","e","r","a","t","u","r","e">>,
     top_p |-> <<"t","o","p","_","p">>,
     type |-> <<"t","y","p","e">>,
     managed_agents |-> <<"m","a","n","a","g","e","d","_","a","g","e","n","t","s">>,
     file |-> <<"f","i","l","e">>,
     usage_description |-> <<"u","s","a","g","e","_","d","e","s","c","r","i","p","t","i","o","n">>]

\* other string literals
T ==
    [unnamed_agent |-> <<"u","n","n","a","m","e","d","_","a","g","e","n","t">>,
     single_task |-> <<"s","i","n","g","l","e","_","t","a","s","k">>,
     manager |-> <<"m","a","n","a","g","e","r">>,
     mgr |-> <<"m","g","r">>,
     json |-> <<"j","s","o","n">>,
     OpenAI |-> <<"O","p","e","n","A","I">>,
     gpt_4o_mini |-> <<"g","p","t","-","4","o","-","m","i","n","i">>,
     ManagerUsage |-> <<"T","h","e"," ","m","a","n","a","g","e","r"," ","o","r","c","h","e","s","t","r","a","t","e","s"," ","s","u","b","o","r","d","i","n","a","t","e"," ","r","o","l","e"," ","a","g","e","n","t","s"," ","a","n","d"," ","p","a","c","k","a","g","e","s"," ","o","u","t","p","u","t","s",".">>,
     roles_prefix |-> <<"a","g","e","n","t","s","/","r","o","l","e","s","/">>,
     dot_yaml |-> <<".","y","a","m","l">>,
     supports |-> <<" ","s","u","p","p","o","r","t","s"," ","t","h","e"," ","m","a","n","a","g","e","r",".">>,
     workflow_ |-> <<"w","o","r","k","f","l","o","w","_">>]

(***************************************************************************)
(* json.dumps with the default separators.  A dict is written with its     *)
(* keys in the order of KeyOrder, the insertion order of the objects the   *)
(* callers build.                                                          *)
(***************************************************************************)
KeyOrder ==
    <<K.workflow_yaml, K.agents, K.name, K.yaml, K.response, K.input, K.output,
      K.yaml_schema, K.workflow_definition, K.raw_string, K.description>>

\* the body of the JSON string token for s
EscapeJson(s) ==
    Flatten([i \in 1..Len(s) |->
        CASE s[i] = "\"" -> <<"\\", "\"">>
          [] s[i] = "\\" -> <<"\\", "\\">>
          [] s[i] = "\n" -> <<"\\", "n">>
          [] s[i] = "\r" -> <<"\\", "r">>
          [] s[i] = "\t" -> <<"\\", "t">>
          [] OTHER -> <<s[i]>>])

RECURSIVE DumpDigits(_)
DumpDigits(n) ==
    IF n < 10 THEN <<DigitChars[n + 1]>>
    ELSE DumpDigits(n \div 10) \o <<DigitChars[(n % 10) + 1]>>

RECURSIVE json_dumps(_)
RECURSIVE DumpItems(_, _)
RECURSIVE DumpMembers(_, _, _)

\* json.dumps(x)
json_dumps(x) ==
    CASE x.t = "str" -> <<"\"">> \o EscapeJson(x.v) \o <<"\"">>
      [] x.t = "none" -> KwNull
      [] x.t = "bool" -> IF x.v THEN KwTrue ELSE KwFalse
      [] x.t = "num" -> DumpDigits(x.v)
      [] x.t = "list" -> <<"[">> \o DumpItems(x.v, TRUE) \o <<"]">>
      [] x.t = "dict" -> <<"{">> \o DumpMembers(x, 1, TRUE) \o <<"}">>

DumpItems(xs, first) ==
    IF xs = <<>> THEN <<>>
    ELSE (IF first THEN <<>> ELSE <<",", " ">>) \o json_dumps(Head(xs))
             \o DumpItems(Tail(xs), FALSE)

DumpMembers(d, i, first) ==
    IF i > Len(KeyOrder) THEN <<>>
    ELSE IF ~HasKey(d, KeyOrder[i]) THEN DumpMembers(d, i + 1, first)
    ELSE (IF first THEN <<>> ELSE <<",", " ">>)
             \o <<"\"">> \o EscapeJson(KeyOrder[i]) \o <<"\"", ":", " ">>
             \o json_dumps(d.v[KeyOrder[i]])
             \o DumpMembers(d, i + 1, FALSE)

(***************************************************************************)
(* The two regular expressions of the fallback,                            *)
(*     "workflow_yaml":\s*"([^"]+)"      and      "yaml":\s*"([^"]+)"      *)
(* and the unicode_escape codec.                                           *)
(***************************************************************************)
ReSpace == {" ", "\t", "\n", "\r", "<FF>", "<VT>"}

RECURSIVE SkipReSpace(_, _)
SkipReSpace(t, i) == IF i <= Len(t) /\ t[i] \in ReSpace THEN SkipReSpace(t, i + 1) ELSE i

\* the end of the longest run of non-quote characters from position i
SkipNonQuote(t, i) ==
    LET End(q) == IF q = 0 THEN Len(t) + 1 ELSE q IN End(FirstChar(t, "\"", i, Len(t)))

\* the pattern  "<key>":\s*"([^"]+)"  matched at position i exactly
MatchFieldAt(t, i, key) ==
    LET Group(lit, q, e) ==
            IF /\ StartsWithAt(t, i, lit)
               /\ q <= Len(t) /\ t[q] = "\""
               /\ e > q + 1
               /\ e <= Len(t)
            THEN [ok |-> TRUE, group |-> SubSeq(t, q + 1, e - 1), end |-> e + 1]
            ELSE [ok |-> FALSE, group |-> <<>>, end |-> i + 1]
        Open(lit, q) == Group(lit, q, SkipNonQuote(t, q + 1))
        Lit(lit) == Open(lit, SkipReSpace(t, i + Len(lit)))
    IN  Lit(<<"\"">> \o key \o <<"\"", ":">>)

RECURSIVE FirstMatch(_, _, _, _)
\* the first position in lo..hi where the pattern matches, 0 if there is none
FirstMatch(t, key, lo, hi) ==
    IF lo > hi THEN 0
    ELSE IF lo = hi THEN (IF MatchFieldAt(t, lo, key).ok THEN lo ELSE 0)
    ELSE LET Pick(mid, l) == IF l # 0 THEN l ELSE FirstMatch(t, key, mid + 1, hi)
         IN  Pick((lo + hi) \div 2, FirstMatch(t, key, lo, (lo + hi) \div 2))

\* the leftmost match at or after position i
re_search_from(t, i, key) ==
    LET At(p) == IF p = 0 THEN [ok |-> FALSE, group |-> <<>>, end |-> Len(t) + 1]
                 ELSE MatchFieldAt(t, p, key)
    IN  At(FirstMatch(t, key, i, Len(t)))

\* re.search(pattern, t): the leftmost match
re_search(t, key) == re_search_from(t, 1, key)

RECURSIVE re_findall_from(_, _, _)
re_findall_from(t, i, key) ==
    LET Rest(m) == IF m.ok THEN <<m.group>> \o re_findall_from(t, m.end, key) ELSE <<>>
    IN  Rest(re_search_from(t, i, key))

\* re.findall(pattern, t): the groups of the successive non-overlapping matches
re_findall(t, key) == re_findall_from(t, 1, key)

\* the character a one-letter escape of the unicode_escape codec stands for
SimpleEscapes ==
    [c \in {"n", "t", "r", "\\", "'", "\"", "a", "b", "f", "v"} |->
        CASE c = "n" -> "\n" [] c = "t" -> "\t" [] c = "r" -> "\r"
          [] c = "a" -> "<BEL>" [] c = "b" -> "<BS>" [] c = "f" -> "<FF>"
          [] c = "v" -> "<VT>" [] OTHER -> c]

\* what the character at position k of s contributes to the decoded text
UnicodeEscapePiece(s, k) ==
    IF IsEscaped(s, k, 1) THEN
        IF s[k] \in DOMAIN SimpleEscapes THEN <<SimpleEscapes[s[k]]>>
        ELSE IF s[k] = "\n" THEN <<>>
        ELSE <<"\\", s[k]>>
    ELSE IF s[k] = "\\" THEN <<>>
    ELSE <<s[k]>>

\* the codec raises on a backslash that ends the text and on a truncated
\* \x, \u, \U or \N escape
UnicodeEscapeBad(s, k) ==
    IF IsEscaped(s, k, 1) THEN s[k] \in {"x", "u", "U", "N"}
    ELSE s[k] = "\\" /\ k = Len(s)

\* s.encode("utf-8").decode("unicode_escape") on ASCII text: ok is FALSE when
\* the codec raises UnicodeDecodeError.  \x, \u, \U and \N are modelled in
\* their truncated form only (no hexadecimal digits or braces follow them in
\* the texts considered); octal escapes are outside the alphabet.
unicode_escape(s) ==
    IF \E k \in 1..Len(s) : UnicodeEscapeBad(s, k) THEN [ok |-> FALSE, txt |-> <<>>]
    ELSE [ok |-> TRUE, txt |-> Flatten([k \in 1..Len(s) |-> UnicodeEscapePiece(s, k)])]

(***************************************************************************)
(* yaml.safe_load on the block subset the agent definitions use: a         *)
(* document is empty, a plain scalar, or a block mapping of  key: value    *)
(* lines whose values are plain or quoted scalars, [..] flow sequences of  *)
(* plain scalars, {} or a nested block mapping.  ok is FALSE where PyYAML  *)
(* raises a YAMLError.  Block sequences, comments, anchors, tags, block    *)
(* scalars, non-empty flow mappings, escapes in double-quoted scalars and  *)
(* non-string keys are outside the subset.                                 *)
(***************************************************************************)
YFail == [ok |-> FALSE, val |-> VNone]

YOk(x) == [ok |-> TRUE, val |-> x]

\* characters the YAML reader or scanner rejects
YamlBadChars == {"\t", "<BEL>", "<BS>", "<FF>", "<VT>"}

\* the k-th smallest member of a set of positions
Nth(S, k) == CHOOSE i \in S : Cardinality({j \in S : j < i}) = k - 1

\* s.split on the characters of c: the pieces between the separators
SplitOn(s, c) ==
    LET Piece(seps, k) ==
            SubSeq(s, IF k = 1 THEN 1 ELSE Nth(seps, k - 1) + 1,
                      IF k = Cardinality(seps) + 1 THEN Len(s) ELSE Nth(seps, k) - 1)
        Pieces(seps) == [k \in 1..(Cardinality(seps) + 1) |-> Piece(seps, k)]
    IN  Pieces({i \in 1..Len(s) : s[i] \in c})

RECURSIVE LStrip(_)
LStrip(s) == IF s # <<>> /\ Head(s) = " " THEN LStrip(Tail(s)) ELSE s

RECURSIVE RStrip(_)
RStrip(s) == IF s # <<>> /\ s[Len(s)] = " " THEN RStrip(SubSeq(s, 1, Len(s) - 1)) ELSE s

Strip(s) == RStrip(LStrip(s))

Indent(s) == Len(s) - Len(LStrip(s))

\* the non-blank lines of a document with their indentation
YLines(t) ==
    LET Rows(ls) == [i \in 1..Len(ls) |-> [ind |-> Indent(ls[i]), txt |-> Strip(ls[i])]]
    IN  SelectSeq(Rows(SplitOn(t, {"\n", "\r"})), LAMBDA r : r.txt # <<>>)

\* position of the first ':' that is followed by a space or ends the line; 0 if none
ColonPos(s) ==
    LET First(ps) == IF ps = {} THEN 0 ELSE CHOOSE i \in ps : \A j \in ps : i <= j
    IN  First({i \in 1..Len(s) : s[i] = ":" /\ (i = Len(s) \/ s[i + 1] = " ")})

IsEntry(r) == ColonPos(r.txt) > 0

EntryKey(r) == RStrip(SubSeq(r.txt, 1, ColonPos(r.txt) - 1))

EntryVal(r) == LStrip(SubSeq(r.txt, ColonPos(r.txt) + 1, Len(r.txt)))

RECURSIVE JoinLines(_)
\* line folding of a multi-line plain scalar
JoinLines(rs) ==
    IF rs = <<>> THEN <<>>
    ELSE IF Len(rs) = 1 THEN rs[1].txt
    ELSE rs[1].txt \o <<" ">> \o JoinLines(Tail(rs))

YamlNullWords == {<<"n","u","l","l">>, <<"N","u","l","l">>, <<"N","U","L","L">>, <<"~">>}

YamlTrueWords ==
    {<<"t","r","u","e">>, <<"T","r","u","e">>, <<"T","R","U","E">>,
     <<"y","e","s">>, <<"Y","e","s">>, <<"Y","E","S">>,
     <<"o","n">>, <<"O","n">>, <<"O","N">>}

YamlFalseWords ==
    {<<"f","a","l","s","e">>, <<"F","a","l","s","e">>, <<"F","A","L","S","E">>,
     <<"n","o">>, <<"N","o">>, <<"N","O">>,
     <<"o","f","f">>, <<"O","f","f">>, <<"O","F","F">>}

\* implicit tag resolution of a plain scalar
YResolve(p) ==
    IF p \in YamlNullWords THEN VNone
    ELSE IF p \in YamlTrueWords THEN VBool(TRUE)
    ELSE IF p \in YamlFalseWords THEN VBool(FALSE)
    ELSE IF p # <<>> /\ (\A i \in 1..Len(p) : IsDigit(p[i])) /\ (Len(p) = 1 \/ p[1] # "0")
         THEN ScanDigits(p, 1, 0).val
    ELSE IF Len(p) = 3 /\ IsDigit(p[1]) /\ p[2] = "." /\ IsDigit(p[3])
         THEN VFloat10(10 * DigitVal(p[1]) + DigitVal(p[3]))
    ELSE VStr(p)

FlowIndicators == {"[", "]", "{", "}", ","}

\* the items of a flow sequence body
YFlowItems(inner) ==
    LET Items(raw) == [i \in 1..Len(raw) |-> Strip(raw[i])]
        \* a trailing comma is allowed
        Used(items) == IF Len(items) > 1 /\ items[Len(items)] = <<>>
                       THEN SubSeq(items, 1, Len(items) - 1) ELSE items
        Node(used) ==
            IF \E i \in 1..Len(used) :
                    \/ used[i] = <<>>
                    \/ ColonPos(used[i]) > 0
                    \/ \E j \in 1..Len(used[i]) : used[i][j] \in FlowIndicators \cup {"\"", "'"}
            THEN YFail
            ELSE YOk(VList([i \in 1..Len(used) |-> YResolve(used[i])]))
    IN  IF Strip(inner) = <<>> THEN YOk(VList(<<>>))
        ELSE Node(Used(Items(SplitOn(inner, {","}))))

\* a scalar or flow node written on one (folded) line
YScalar(s) ==
    IF s = <<>> THEN YOk(VNone)
    ELSE IF ColonPos(s) > 0 THEN YFail
    ELSE IF s[1] = "[" THEN
        IF s[Len(s)] = "]" /\ Len(s) >= 2 THEN YFlowItems(SubSeq(s, 2, Len(s) - 1)) ELSE YFail
    ELSE IF s = <<"{", "}">> THEN YOk(EmptyDict)
    ELSE IF s[1] \in {"{", "}", "]", ",", "%", "@"} THEN YFail
    ELSE IF s[1] \in {"\"", "'"} THEN
        IF /\ Len(s) >= 2
           /\ s[Len(s)] = s[1]
           /\ \A i \in 2..(Len(s) - 1) : s[i] # s[1] /\ (s[1] = "\"" => s[i] # "\\")
        THEN YOk(VStr(SubSeq(s, 2, Len(s) - 1)))
        ELSE YFail
    ELSE YOk(YResolve(s))

\* first index >= i of a line indented exactly b, Len + 1 if there is none
RECURSIVE NextTop(_, _, _)
NextTop(rs, i, b) ==
    IF i > Len(rs) \/ rs[i].ind = b THEN i ELSE NextTop(rs, i + 1, b)

RECURSIVE YBlock(_)
RECURSIVE YEntries(_, _, _, _)

\* the node written by the lines rs
YBlock(rs) ==
    IF ~IsEntry(rs[1]) THEN
        IF \A i \in 1..Len(rs) : ~IsEntry(rs[i]) THEN YScalar(JoinLines(rs)) ELSE YFail
    ELSE IF \E i \in 1..Len(rs) : rs[i].ind < rs[1].ind THEN YFail
    ELSE YEntries(rs, 1, rs[1].ind, EmptyDict)

\* the block mapping whose entries are indented b, from line i on
YEntries(rs, i, b, acc) ==
    IF i > Len(rs) THEN YOk(acc)
    ELSE IF ~IsEntry(rs[i]) \/ EntryKey(rs[i]) = <<>> THEN YFail
    ELSE LET Value(vt, kids) ==
                 IF vt # <<>> THEN
                     IF kids = <<>> THEN YScalar(vt)
                     ELSE IF \A k \in 1..Len(kids) : ~IsEntry(kids[k])
                          THEN YScalar(vt \o <<" ">> \o JoinLines(kids))
                     ELSE YFail
                 ELSE IF kids = <<>> THEN YOk(VNone)
                 ELSE YBlock(kids)
             Entry(j, x) ==
                 IF ~x.ok THEN YFail
                 ELSE YEntries(rs, j, b, Put(acc, EntryKey(rs[i]), x.val))
             Upto(j) == Entry(j, Value(EntryVal(rs[i]), SubSeq(rs, i + 1, j - 1)))
         IN  Upto(NextTop(rs, i + 1, b))

\* yaml.safe_load(t) for a text t
yaml_safe_load(t) ==
    IF \E i \in 1..Len(t) : t[i] \in YamlBadChars THEN YFail
    ELSE LET Document(rs) == IF rs = <<>> THEN YOk(VNone) ELSE YBlock(rs)
         IN  Document(YLines(t))

(***************************************************************************)
(* canonicalize_agent_yaml (src/utils/normalize_output.py)                 *)
(***************************************************************************)
DEFAULT_LLM_CONFIG ==
    VDict((K.provider_id :> VStr(T.OpenAI))
       @@ (K.model :> VStr(T.gpt_4o_mini))
       @@ (K.temperature :> VFloat10(7))
       @@ (K.top_p :> VFloat10(9))
       @@ (K.response_format :> VDict(K.type :> VStr(T.json))))

Raised == [ok |-> FALSE, val |-> VNone]

Returned(x) == [ok |-> TRUE, val |-> x]

\* the test without .lower()
IsManagerNameCaseSensitive(name) == InText(T.manager, name) \/ InText(T.mgr, name)

\* any(x in name.lower() for x in ["manager", "mgr"])
IsManagerName(name) == InText(T.manager, Lower(name)) \/ InText(T.mgr, Lower(name))

\* lines 19-22: the mapping decoded from agent["yaml"]; ok is FALSE when the
\* except handler itself raises (agent has no .get)
DecodedAgentYaml(agent) ==
    IF ~IsDict(agent) THEN Raised
    ELSE LET Loaded(src) == IF IsStr(src) THEN yaml_safe_load(src.v) ELSE YFail
             Decoded(y) ==
                 IF ~y.ok
                 THEN Returned(VDict(K.name :> Get(agent, K.name, VStr(T.unnamed_agent))))
                 ELSE Returned(IF Falsy(y.val) THEN EmptyDict ELSE y.val)
         IN  Decoded(Loaded(Get(agent, K.yaml, VStr(<<>>))))

\* the decoded mapping with no default filled in
CanonicalRecordUnfilled(parsed, name) ==
    Put(Put(parsed, K.template_type, VStr(T.single_task)), K.name, name)

\* lines 27-43: the canonical record built from the decoded mapping
CanonicalRecord(parsed, name) ==
    VDict((K.template_type :> VStr(T.single_task))
       @@ (K.name :> name)
       @@ (K.description :> Get(parsed, K.description, VStr(<<>>)))
       @@ (K.agent_role :> Get(parsed, K.agent_role, VStr(<<>>)))
       @@ (K.agent_goal :> Get(parsed, K.agent_goal, VStr(<<>>)))
       @@ (K.agent_instructions :> Get(parsed, K.agent_instructions, VStr(<<>>)))
       @@ (K.features :> Get(parsed, K.features, VList(<<>>)))
       @@ (K.tools :> Get(parsed, K.tools, VList(<<>>)))
       @@ (K.tool_usage_description :>
               Get(parsed, K.tool_usage_description,
                   IF IsManagerName(name.v) THEN VStr(T.ManagerUsage) ELSE VStr(<<>>)))
       @@ (K.response_format :> Get(parsed, K.response_format, VDict(K.type :> VStr(T.json))))
       @@ (K.llm_config :> Get(parsed, K.llm_config, DEFAULT_LLM_CONFIG)))

\* canonicalize_agent_yaml(agent): ok is FALSE when the call raises
\* (AttributeError from .get on a non-mapping or .lower() on a non-string)
canonicalize_agent_yaml(agent) ==
    LET Named(d, name) ==
            IF ~IsStr(name) THEN Raised ELSE Returned(CanonicalRecord(d.val, name))
        From(d) ==
            IF ~d.ok THEN Raised
            ELSE IF ~IsDict(d.val) THEN Raised
            ELSE Named(d, Get(d.val, K.name, Get(agent, K.name, VStr(T.unnamed_agent))))
    IN  From(DecodedAgentYaml(agent))

(***************************************************************************)
(* normalize_inference_output (src/utils/normalize_output.py) as a state   *)
(* machine: one action per loop iteration or block of the function.        *)
(***************************************************************************)
VARIABLES
    pc,            \* position in normalize_inference_output, "idle" between calls
    raw_response,  \* argument of the call in progress
    parsed,        \* local variable parsed
    attempt,       \* iterations of the parsing loop done
    ts,            \* local variable ts, the clock reading of line 74
    agent_i,       \* index of the next agent of the saving loop
    saved_agents,  \* local variable saved_agents
    mgr_i,         \* index of the next manager of the post-processing loop
    fallback,      \* TRUE once the regex fallback ran in this call
    outcome,       \* "none", "returned" or "raised"
    result,        \* the value returned
    fs,            \* file system: path -> content
    dirs,          \* directories that exist
    clock,         \* wall clock in seconds
    calls,         \* calls started so far
    scope,         \* which input set this behaviour draws from
    candidate,     \* local variable candidate of the unwrapping version
    unwraps,       \* local variable unwraps of the unwrapping version
    agent,         \* argument of canonicalize_agent_yaml called on its own
    supplied,      \* the fields written in the YAML text of agent
    once,          \* canonicalize_agent_yaml(agent)
    twice,         \* canonicalize_agent_yaml applied to that result
    seen,          \* history: how each earlier call ended, by its raw_response
    fault,         \* the failure the environment caused in this call, "none" if none
    ver,           \* arguments and result of generate_new_name
    race,          \* two invocations that run at the same time
    req,           \* one call of LyzrAPIClient._request
    retrying,      \* one call of run_with_retries
    batch          \* one call of run_manager_with_usecases

\* the variables of the unwrapping version and of the canonicalizer alone
xvars == <<candidate, unwraps, agent, supplied, once, twice>>

\* the variables of the client and of the retry helper
zvars == <<req, retrying, batch>>

\* the history and fault variables and those of the other functions
yvars == <<seen, fault, ver, race, zvars>>

vars == <<pc, raw_response, parsed, attempt, ts, agent_i, saved_agents, mgr_i,
          fallback, outcome, result, fs, dirs, clock, calls, scope, xvars, yvars>>

\* default of the parameter max_attempts
max_attempts == 5

\* datetime.now().strftime("%Y%m%d_%H%M%S") at clock reading n
TsText(n) == <<"2","0","2","6","0","1","0","1","_","0","0","0","0","0", DigitChars[n + 1]>>

\* out_dir / f"workflow_{ts}.yaml"
WorkflowPath(n) == [dir |-> "out", file |-> T.workflow_ \o TsText(n) \o T.dot_yaml]

\* out_dir / f"{name}.yaml"
AgentPath(name) == [dir |-> "out", file |-> name \o T.dot_yaml]

\* Path("agents/roles") / f"{name}.yaml"
RolePath(name) == [dir |-> "roles", file |-> name \o T.dot_yaml]

\* the file system after writing content x to path p
WriteFile(f, p, x) == [q \in (DOMAIN f) \cup {p} |-> IF q = p THEN x ELSE f[q]]

\* safe_json(s): json.loads, None on any exception
safe_json(s) == LET Value(r) == IF r.ok THEN r.val ELSE VNone IN Value(json_loads(s))

\* raw_response.replace("\r", "").replace("\n", "\\n")
EscapeFix(s) == ReplaceChar(ReplaceChar(s, "\r", <<>>), "\n", <<"\\", "n">>)

\* lines 64-68: parsed after the two decode strategies
DecodeRaw(raw, old) ==
    IF ~IsStr(raw) THEN old
    ELSE LET Second(a) == IF Falsy(a) THEN safe_json(VStr(EscapeFix(raw.v))) ELSE a
         IN  Second(safe_json(raw))

\* lines 70-71: one level of "response" unwrapping
UnwrapResponse(p) ==
    IF HasKey(p, K.response) /\ IsStr(p.v[K.response])
    THEN LET Inner(u) == IF Falsy(u) THEN p ELSE u IN Inner(safe_json(p.v[K.response]))
    ELSE p

\* the elements a for loop over x visits; ok is FALSE when x is not iterable
IterItems(x) ==
    CASE x.t = "list" -> [ok |-> TRUE, items |-> x.v]
      [] x.t = "str" -> [ok |-> TRUE, items |-> [i \in 1..Len(x.v) |-> VStr(<<x.v[i]>>)]]
      [] x.t = "dict" ->
            LET Order(ks) ==
                    CHOOSE f \in [1..Cardinality(ks) -> ks] : \A k \in ks : \E i \in DOMAIN f : f[i] = k
                Keys(ord) == [ok |-> TRUE, items |-> [i \in 1..Len(ord) |-> VStr(ord[i])]]
            IN  Keys(Order(DOMAIN x.v))
      [] OTHER -> [ok |-> FALSE, items |-> <<>>]

\* line 116 without .lower()
ManagersOfCaseSensitive(saved) ==
    SelectSeq(saved, LAMBDA a : IsManagerNameCaseSensitive(a.v[K.name].v))

\* line 116
ManagersOf(saved) == SelectSeq(saved, LAMBDA a : IsManagerName(a.v[K.name].v))

\* every saved agent taken for a role
RolesOfAll(saved) == saved

\* line 117
RolesOf(saved) ==
    LET NotIn(mgrs) == SelectSeq(saved, LAMBDA a : ~\E i \in 1..Len(mgrs) : mgrs[i] = a)
    IN  NotIn(ManagersOf(saved))

\* lines 126-132
ManagedAgents(roles) ==
    VList([i \in 1..Len(roles) |->
        VDict((K.file :> VStr(T.roles_prefix \o roles[i].v[K.name].v \o T.dot_yaml))
           @@ (K.usage_description :>
                  Get(roles[i], K.description, VStr(roles[i].v[K.name].v \o T.supports))))])

(***************************************************************************)
(* Inputs: the raw responses a call may receive                            *)
(***************************************************************************)
\* longest agents list of a well-formed response
MaxAgents == 3

\* most  "key": "value"  fields in a response that is not valid JSON
MaxFields == 2

\* calls made one after the other into the same out_dir
MaxCalls == 2

\* seconds the clock may advance
MaxClock == 2

\* sample texts: agent names (N), agent YAML (Y), workflow YAML (W), the
\* openings of the two fields the fallback looks for (F) and field values (V)
Sample ==
    [N_Mgr |-> <<"M","g","r">>,
     N_TheManager |-> <<"T","h","e","M","a","n","a","g","e","r">>,
     N_R1 |-> <<"R","1">>,
     N_R2 |-> <<"R","2">>,
     N_R3 |-> <<"R","3">>,
     Y_Mgr |-> <<"n","a","m","e",":"," ","M","g","r","\n","d","e","s","c","r","i","p","t","i","o","n",":"," ","d">>,
     Y_R1 |-> <<"n","a","m","e",":"," ","R","1">>,
     Y_Desc |-> <<"d","e","s","c","r","i","p","t","i","o","n",":"," ","d">>,
     Y_Scalar |-> <<"x">>,
     W_Flow |-> <<"f","l","o","w","_","n","a","m","e",":"," ","X","\n","q",":"," ","\"","y","\"">>,
     W_Other |-> <<"f","l","o","w","_","n","a","m","e",":"," ","Z">>,
     F_wf |-> <<"\"","w","o","r","k","f","l","o","w","_","y","a","m","l","\"",":"," ","\"">>,
     F_yaml |-> <<"\"","y","a","m","l","\"",":"," ","\"">>,
     F_close |-> <<"\"",","," ">>,
     V_Role |-> <<"n","a","m","e",":"," ","Y">>,
     V_Quote |-> <<"a","\\","\"","b">>,
     V_Mgr |-> <<"n","a","m","e",":"," ","M","g","r","\\","n","d","e","s","c","r","i","p","t","i","o","n",":"," ","d">>]

Agent(n, y) == VDict((K.name :> VStr(n)) @@ (K.yaml :> VStr(y)))

\* the agent blocks responses are built from; the last one carries YAML that
\* is a plain scalar, not a mapping
AgentBlocks ==
    {Agent(Sample.N_Mgr, Sample.Y_Mgr), Agent(Sample.N_TheManager, <<>>),
     Agent(Sample.N_R1, Sample.Y_R1), Agent(Sample.N_R2, Sample.Y_Desc),
     Agent(Sample.N_R3, Sample.Y_Scalar)}

RECURSIVE SeqsUpTo(_, _)
\* the sequences over S of length at most n
SeqsUpTo(S, n) ==
    IF n = 0 THEN {<<>>}
    ELSE LET Longer(shorter) ==
                 shorter \cup {Append(s, x) : s \in {q \in shorter : Len(q) = n - 1}, x \in S}
         IN  Longer(SeqsUpTo(S, n - 1))

\* {workflow_yaml, agents: [{name, yaml}, ...]}
CanonicalObject(w, as) == VDict((K.workflow_yaml :> VStr(w)) @@ (K.agents :> VList(as)))

CanonicalObjects ==
    {CanonicalObject(Sample.W_Flow, as) : as \in SeqsUpTo(AgentBlocks, MaxAgents)}

\* the JSON serialization of each canonical object
CanonicalTexts == [o \in CanonicalObjects |-> json_dumps(o)]

\* the fields of responses that are not valid JSON; their values are a role
\* block, a value holding an escaped quote, the empty value and a manager
\* block with an escaped line break
Fields ==
    {k \o v \o Sample.F_close :
        k \in {Sample.F_wf, Sample.F_yaml},
        v \in {Sample.V_Role, Sample.V_Quote, <<>>, Sample.V_Mgr}}

BrokenTexts == {Flatten(fields) : fields \in SeqsUpTo(Fields, MaxFields)}

\* a workflow field and two agent fields, the second agent a manager
SalvageText ==
    Sample.F_wf \o Sample.V_Role \o Sample.F_close \o Sample.F_yaml \o Sample.V_Mgr
        \o Sample.F_close \o Sample.F_yaml \o Sample.V_Role \o Sample.F_close

\* other texts: empty, JSON that is falsy, an object without any of the
\* expected keys, an object with a raw_string key of its own, agents or workflow_yaml of the
\* wrong type, two agents of one name, a literal line
\* break inside a string, "response" holding plain text, a list or an object
MiscTexts ==
    {<<>>,
     <<"{","}">>,
     <<"[","]">>,
     <<"n","u","l","l">>,
     <<"{","\"","d","e","s","c","r","i","p","t","i","o","n","\"",":"," ","\"","x","\"","}">>,
     <<"{","\"","r","a","w","_","s","t","r","i","n","g","\"",":"," ","\"","q","\"","}">>,
     <<"{","\"","a","g","e","n","t","s","\"",":"," ","\"","a","b","\"","}">>,
     <<"{","\"","a","g","e","n","t","s","\"",":"," ","5","}">>,
     <<"{","\"","a","g","e","n","t","s","\"",":"," ","[","{","\"","n","a","m","e","\"",":"," ","\"","R","1","\"",","," ","\"","y","a","m","l","\"",":"," ","\"","d","e","s","c","r","i","p","t","i","o","n",":"," ","d","\"","}",","," ","{","\"","n","a","m","e","\"",":"," ","\"","R","1","\"","}","]","}">>,
     <<"{","\"","a","g","e","n","t","s","\"",":"," ","{","\"","n","a","m","e","\"",":"," ","\"","R","1","\"","}","}">>,
     <<"{","\"","a","g","e","n","t","s","\"",":"," ","[","5","]","}">>,
     <<"{","\"","w","o","r","k","f","l","o","w","_","y","a","m","l","\"",":"," ","5","}">>,
     <<"{","\"","w","o","r","k","f","l","o","w","_","y","a","m","l","\"",":"," ","\"","a","\n","b","\"","}">>,
     <<"{","\"","r","e","s","p","o","n","s","e","\"",":"," ","\"","p","l","a","i","n","\"",","," ","\"","w","o","r","k","f","l","o","w","_","y","a","m","l","\"",":"," ","\"","w","\"","}">>,
     <<"{","\"","r","e","s","p","o","n","s","e","\"",":"," ","\"","[","1","]","\"","}">>,
     <<"{","\"","r","e","s","p","o","n","s","e","\"",":"," ","{","\"","w","o","r","k","f","l","o","w","_","y","a","m","l","\"",":"," ","\"","w","\"","}","}">>,
     SalvageText}

\* a response wrapped under "response", as the upstream API returns it
Enveloped(x) == VDict(K.response :> VStr(json_dumps(x)))

TeamObject ==
    CanonicalObject(Sample.W_Flow,
        <<Agent(Sample.N_Mgr, Sample.Y_Mgr), Agent(Sample.N_R1, Sample.Y_R1),
          Agent(Sample.N_R2, Sample.Y_Desc)>>)

EnvelopedTexts ==
    {json_dumps(Enveloped(TeamObject)), json_dumps(Enveloped(Enveloped(TeamObject)))}

\* raw_response is a string or an already decoded object
WideInputs ==
    {VStr(CanonicalTexts[o]) : o \in CanonicalObjects}
        \cup {VStr(t) : t \in BrokenTexts \cup MiscTexts \cup EnvelopedTexts}
        \cup {EmptyDict, TeamObject}

\* the responses of a run of several calls
SeqInputs ==
    {VStr(json_dumps(TeamObject)),
     VStr(json_dumps(CanonicalObject(Sample.W_Other,
         <<Agent(Sample.N_Mgr, Sample.Y_Mgr), Agent(Sample.N_R2, Sample.Y_Desc)>>))),
     VStr(json_dumps(CanonicalObject(Sample.W_Other, <<Agent(Sample.N_Mgr, <<>>)>>))),
     VStr(SalvageText),
     EmptyDict}

InputsOf(sc) == IF sc = "wide" THEN WideInputs ELSE SeqInputs

CallsOf(sc) == IF sc = "wide" THEN 1 ELSE MaxCalls

(***************************************************************************)
(* Actions                                                                 *)
(***************************************************************************)
\* the locals of a function that has not been entered, and an empty disk
Fresh ==
    /\ raw_response = VNone
    /\ parsed = VNone
    /\ attempt = 0
    /\ ts = 0
    /\ agent_i = 1
    /\ saved_agents = <<>>
    /\ mgr_i = 1
    /\ fallback = FALSE
    /\ outcome = "none"
    /\ result = VNone
    /\ fs = <<>>
    /\ clock = 0
    /\ calls = 0
    /\ candidate = VNone
    /\ unwraps = 0
    /\ agent = VNone
    /\ supplied = VNone
    /\ once = VNone
    /\ twice = VNone
    /\ seen = {}
    /\ fault = "none"
    /\ ver = VNone
    /\ race = VNone
    /\ req = VNone
    /\ retrying = VNone
    /\ batch = VNone

\* out_dir exists (run_manager_with_usecases creates it before the call) or
\* does not (run_inference of app/main.py passes a fresh path)
Init ==
    /\ Fresh
    /\ pc = "idle"
    /\ dirs \in {{}, {"out"}}
    /\ scope \in {"wide", "seq"}

\* an exception leaves the function: the call is over without a result
Raise ==
    /\ pc' = "done"
    /\ outcome' = "raised"
    /\ result' = VNone

\* a second passes after a call
Tick ==
    /\ pc = "done"
    /\ calls < CallsOf(scope)
    /\ clock < MaxClock
    /\ clock' = clock + 1
    /\ UNCHANGED <<pc, raw_response, parsed, attempt, ts, agent_i, saved_agents, mgr_i,
                   fallback, outcome, result, fs, dirs, calls, scope, yvars, xvars>>

\* the function entered without line 62: parsed keeps its value
CallKeepingParsed(raw) ==
    /\ pc \in {"idle", "done"}
    /\ calls < CallsOf(scope)
    /\ calls' = calls + 1
    /\ raw_response' = raw
    /\ attempt' = 0
    /\ agent_i' = 1
    /\ saved_agents' = <<>>
    /\ mgr_i' = 1
    /\ fallback' = FALSE
    /\ outcome' = "none"
    /\ result' = VNone
    /\ pc' = "parse"
    /\ seen' = IF pc = "done"
               THEN seen \cup {[raw |-> raw_response, outcome |-> outcome, result |-> result]}
               ELSE seen
    /\ fault' = "none"
    /\ UNCHANGED <<parsed, ts, fs, dirs, clock, scope, xvars, ver, race, zvars>>

\* normalize_inference_output(raw, out_dir) is entered
Call(raw) ==
    /\ pc \in {"idle", "done"}
    /\ calls < CallsOf(scope)
    /\ calls' = calls + 1
    /\ raw_response' = raw
    /\ parsed' = VNone
    /\ attempt' = 0
    /\ agent_i' = 1
    /\ saved_agents' = <<>>
    /\ mgr_i' = 1
    /\ fallback' = FALSE
    /\ outcome' = "none"
    /\ result' = VNone
    /\ pc' = "parse"
    /\ seen' = IF pc = "done"
               THEN seen \cup {[raw |-> raw_response, outcome |-> outcome, result |-> result]}
               ELSE seen
    /\ fault' = "none"
    /\ UNCHANGED <<ts, fs, dirs, clock, scope, xvars, ver, race, zvars>>

\* lines 63-72: one iteration of the parsing loop
ParseAttempt ==
    /\ pc = "parse"
    /\ \E p \in {DecodeRaw(raw_response, parsed)} :
           /\ parsed' = IF IsDict(p) THEN UnwrapResponse(p) ELSE p
           /\ attempt' = attempt + 1
           /\ pc' = IF IsDict(p) \/ attempt + 1 >= max_attempts THEN "stamp" ELSE "parse"
    /\ UNCHANGED <<raw_response, ts, agent_i, saved_agents, mgr_i, fallback, outcome,
                   result, fs, dirs, clock, calls, scope, yvars, xvars>>

\* lines 74 and 77: the time stamp is taken and the path is chosen
Stamp ==
    /\ pc = "stamp"
    /\ ts' = clock
    /\ pc' = IF Falsy(parsed) \/ ~IsDict(parsed) THEN "fallback" ELSE "save_wf"
    /\ UNCHANGED <<raw_response, parsed, attempt, agent_i, saved_agents, mgr_i, fallback,
                   outcome, result, fs, dirs, clock, calls, scope, yvars, xvars>>

\* lines 83 and 87: the decoded groups; ok is FALSE when a decode raises
DecodeAll(groups) ==
    LET Agents(ds) ==
            [ok  |-> \A i \in 1..Len(ds) : ds[i].ok,
             val |-> [i \in 1..Len(ds) |-> VDict(K.yaml :> VStr(ds[i].txt))]]
    IN  Agents([i \in 1..Len(groups) |-> unicode_escape(groups[i])])

\* lines 78-87: the regex fallback
Fallback ==
    /\ pc = "fallback"
    /\ fallback' = TRUE
    /\ IF ~IsStr(raw_response)
       THEN \* re.search raises TypeError
            /\ parsed' = VDict(K.raw_string :> raw_response)
            /\ Raise
       ELSE \E base \in {VDict(K.raw_string :> raw_response)},
               wf \in {re_search(raw_response.v, K.workflow_yaml)},
               ags \in {re_findall(raw_response.v, K.yaml)} :
            \E wfd \in {unicode_escape(wf.group)}, agd \in {DecodeAll(ags)} :
            \E p1 \in {IF wf.ok THEN Put(base, K.workflow_yaml, VStr(wfd.txt)) ELSE base} :
                IF wf.ok /\ ~wfd.ok
                THEN parsed' = base /\ Raise
                ELSE IF ~agd.ok
                THEN parsed' = p1 /\ Raise
                ELSE /\ parsed' = IF ags # <<>> THEN Put(p1, K.agents, VList(agd.val)) ELSE p1
                     /\ pc' = "save_wf"
                     /\ UNCHANGED <<outcome, result>>
    /\ UNCHANGED <<raw_response, attempt, ts, agent_i, saved_agents, mgr_i, fs, dirs,
                   clock, calls, scope, yvars, xvars>>

\* lines 90-94: the workflow file
SaveWorkflow ==
    /\ pc = "save_wf"
    /\ IF ~HasKey(parsed, K.workflow_yaml)
       THEN pc' = "save_agents" /\ UNCHANGED <<fs, outcome, result>>
       ELSE IF "out" \notin dirs
       THEN \* open() raises FileNotFoundError
            Raise /\ UNCHANGED fs
       ELSE IF ~IsStr(parsed.v[K.workflow_yaml])
       THEN \* the file is created, then f.write raises TypeError
            Raise /\ fs' = WriteFile(fs, WorkflowPath(ts), VStr(<<>>))
       ELSE /\ fs' = WriteFile(fs, WorkflowPath(ts), parsed.v[K.workflow_yaml])
            /\ pc' = "save_agents"
            /\ UNCHANGED <<outcome, result>>
    /\ UNCHANGED <<raw_response, parsed, attempt, ts, agent_i, saved_agents, mgr_i,
                   fallback, dirs, clock, calls, scope, yvars, xvars>>

\* lines 99-113: one iteration of the loop over parsed["agents"]
SaveAgent ==
    /\ pc = "save_agents"
    /\ HasKey(parsed, K.agents)
    /\ \E it \in {IterItems(parsed.v[K.agents])} :
           /\ ~it.ok \/ agent_i <= Len(it.items)
           /\ IF ~it.ok
              THEN Raise /\ UNCHANGED <<fs, dirs, saved_agents, agent_i>>
              ELSE \E canon \in {canonicalize_agent_yaml(it.items[agent_i])} :
                       IF ~canon.ok \/ "out" \notin dirs
                       THEN Raise /\ UNCHANGED <<fs, dirs, saved_agents, agent_i>>
                       ELSE \E name \in {canon.val.v[K.name].v} :
                            \E fs1 \in {WriteFile(fs, AgentPath(name), canon.val)} :
                                /\ saved_agents' = Append(saved_agents, canon.val)
                                /\ agent_i' = agent_i + 1
                                /\ IF IsManagerName(name)
                                   THEN fs' = fs1 /\ UNCHANGED dirs
                                   ELSE /\ dirs' = dirs \cup {"roles"}
                                        /\ fs' = WriteFile(fs1, RolePath(name), fs1[AgentPath(name)])
                                /\ UNCHANGED <<pc, outcome, result>>
    /\ UNCHANGED <<raw_response, parsed, attempt, ts, mgr_i, fallback, clock, calls, scope, yvars, xvars>>

\* lines 116-119: the loop is over; managers and roles are told apart
CollectManagers ==
    /\ pc = "save_agents"
    /\ IF HasKey(parsed, K.agents)
       THEN \E it \in {IterItems(parsed.v[K.agents])} : it.ok /\ agent_i > Len(it.items)
       ELSE TRUE
    /\ pc' = IF ManagersOf(saved_agents) # <<>> /\ RolesOf(saved_agents) # <<>>
             THEN "post" ELSE "return"
    /\ mgr_i' = 1
    /\ UNCHANGED <<raw_response, parsed, attempt, ts, agent_i, saved_agents, fallback,
                   outcome, result, fs, dirs, clock, calls, scope, yvars, xvars>>

\* lines 120-138: one manager file is read, given managed_agents and rewritten;
\* an exception in between is caught and printed
UpdateManager ==
    /\ pc = "post"
    /\ \E mgrs \in {ManagersOf(saved_agents)} :
       \E path \in {AgentPath(mgrs[mgr_i].v[K.name].v)} :
           /\ IF path \in DOMAIN fs /\ IsDict(fs[path])
              THEN fs' = WriteFile(fs, path,
                             Put(fs[path], K.managed_agents, ManagedAgents(RolesOf(saved_agents))))
              ELSE UNCHANGED fs
           /\ mgr_i' = mgr_i + 1
           /\ pc' = IF mgr_i + 1 > Len(mgrs) THEN "return" ELSE "post"
    /\ UNCHANGED <<raw_response, parsed, attempt, ts, agent_i, saved_agents, fallback,
                   outcome, result, dirs, clock, calls, scope, yvars, xvars>>

\* line 140
Return ==
    /\ pc = "return"
    /\ pc' = "done"
    /\ outcome' = "returned"
    /\ result' = parsed
    /\ UNCHANGED <<raw_response, parsed, attempt, ts, agent_i, saved_agents, mgr_i,
                   fallback, fs, dirs, clock, calls, scope, yvars, xvars>>

Next ==
    \/ Tick
    \/ \E raw \in InputsOf(scope) : Call(raw)
    \/ ParseAttempt
    \/ Stamp
    \/ Fallback
    \/ SaveWorkflow
    \/ SaveAgent
    \/ CollectManagers
    \/ UpdateManager
    \/ Return

Spec == Init /\ [][Next]_vars

\* lines 122-138 when the environment fails the read or the rewrite of the
\* manager file (OSError): the except clause prints the error and the loop
\* goes on with the next manager
ManagerUnreadable ==
    /\ pc = "post"
    /\ fault' = "manager_file"
    /\ mgr_i' = mgr_i + 1
    /\ pc' = IF mgr_i + 1 > Len(ManagersOf(saved_agents)) THEN "return" ELSE "post"
    /\ UNCHANGED <<raw_response, parsed, attempt, ts, agent_i, saved_agents, fallback,
                   outcome, result, fs, dirs, clock, calls, scope, xvars, seen, ver, race, zvars>>

FaultyNext ==
    \/ Next
    \/ ManagerUnreadable

\* the function in an environment where file operations may fail
SpecFaulty == Init /\ [][FaultyNext]_vars

(***************************************************************************)
(* canonicalize_agent_yaml on its own: applied to an agent mapping, then   *)
(* to its own result.                                                      *)
(***************************************************************************)
\* most fields the YAML text of an agent supplies
MaxYamlFields == 2

\* lines of agent YAML with the key and the value each one writes down
FieldLines ==
    <<[key |-> K.name,
       text |-> <<"n","a","m","e",":"," ","A","R","C","H","I","T","E","C","T","_","M","G","R">>,
       val |-> VStr(<<"A","R","C","H","I","T","E","C","T","_","M","G","R">>)],
      [key |-> K.name,
       text |-> <<"n","a","m","e",":"," ","5">>,
       val |-> VNum(5)],
      [key |-> K.description,
       text |-> <<"d","e","s","c","r","i","p","t","i","o","n",":"," ","d">>,
       val |-> VStr(<<"d">>)],
      [key |-> K.agent_role,
       text |-> <<"a","g","e","n","t","_","r","o","l","e",":"," ","r">>,
       val |-> VStr(<<"r">>)],
      [key |-> K.agent_goal,
       text |-> <<"a","g","e","n","t","_","g","o","a","l",":"," ","g">>,
       val |-> VStr(<<"g">>)],
      [key |-> K.agent_instructions,
       text |-> <<"a","g","e","n","t","_","i","n","s","t","r","u","c","t","i","o","n","s",":"," ","i">>,
       val |-> VStr(<<"i">>)],
      [key |-> K.features,
       text |-> <<"f","e","a","t","u","r","e","s",":"," ","[","a",","," ","b","]">>,
       val |-> VList(<<VStr(<<"a">>), VStr(<<"b">>)>>)],
      [key |-> K.tools,
       text |-> <<"t","o","o","l","s",":"," ","[","t","]">>,
       val |-> VList(<<VStr(<<"t">>)>>)],
      [key |-> K.tool_usage_description,
       text |-> <<"t","o","o","l","_","u","s","a","g","e","_","d","e","s","c","r","i","p","t","i","o","n",":"," ","u">>,
       val |-> VStr(<<"u">>)],
      [key |-> K.response_format,
       text |-> <<"r","e","s","p","o","n","s","e","_","f","o","r","m","a","t",":","\n"," "," ","t","y","p","e",":"," ","t","e","x","t">>,
       val |-> VDict(K.type :> VStr(<<"t","e","x","t">>))],
      [key |-> K.llm_config,
       text |-> <<"l","l","m","_","c","o","n","f","i","g",":","\n"," "," ","m","o","d","e","l",":"," ","x">>,
       val |-> VDict(K.model :> VStr(<<"x">>))],
      [key |-> K.llm_config,
       text |-> <<"l","l","m","_","c","o","n","f","i","g",":","\n"," "," ","p","r","o","v","i","d","e","r","_","i","d",":"," ","P","\n"," "," ","m","o","d","e","l",":"," ","m","\n"," "," ","t","e","m","p","e","r","a","t","u","r","e",":"," ","0",".","5","\n"," "," ","t","o","p","_","p",":"," ","1","\n"," "," ","r","e","s","p","o","n","s","e","_","f","o","r","m","a","t",":","\n"," "," "," "," ","t","y","p","e",":"," ","j","s","o","n">>,
       val |-> VDict((K.provider_id :> VStr(<<"P">>)) @@ (K.model :> VStr(<<"m">>)) @@ (K.temperature :> VFloat10(5))
                     @@ (K.top_p :> VNum(1)) @@ (K.response_format :> VDict(K.type :> VStr(<<"j","s","o","n">>))))]>>

\* the choices of at most MaxYamlFields lines with distinct keys
FieldChoices ==
    {I \in SUBSET (1..Len(FieldLines)) :
        /\ Cardinality(I) <= MaxYamlFields
        /\ \A i, j \in I : FieldLines[i].key = FieldLines[j].key => i = j}

\* the YAML text made of the chosen lines
YamlOf(I) ==
    Flatten([i \in 1..Len(FieldLines) |->
                IF i \in I THEN FieldLines[i].text \o <<"\n">> ELSE <<>>])

\* the mapping the chosen lines write down
SuppliedBy(I) ==
    VDict([k \in {FieldLines[i].key : i \in I} |->
              FieldLines[CHOOSE i \in I : FieldLines[i].key = k].val])

\* the names an agent mapping may carry
AgentNames == {<<"H","R","_","M","a","n","a","g","e","r","_","v","1">>,
               <<"C","a","n","d","i","d","a","t","e","_","S","c","r","e","e","n","i","n","g","_","R","o","l","e">>}

\* YAML that is no mapping: a plain scalar, and text the YAML reader rejects
OddYamls == {<<"x">>, <<"a",":"," ","[">>}

\* a mapping with and without a name of its own
WithNames(a) == {a} \cup {Put(a, K.name, VStr(n)) : n \in AgentNames}

\* agent mappings, each with the fields its YAML text supplies
CanonCases ==
    UNION {{[agent |-> a, supplied |-> SuppliedBy(I)] :
               a \in WithNames(IF I = {} THEN EmptyDict ELSE VDict(K.yaml :> VStr(YamlOf(I))))} :
           I \in FieldChoices}
        \cup {[agent |-> a, supplied |-> EmptyDict] :
                 a \in UNION {WithNames(VDict(K.yaml :> VStr(y))) : y \in OddYamls}}

CanonInit ==
    /\ Fresh
    /\ pc = "canon"
    /\ dirs = {}
    /\ scope = "canon"

\* canonicalize_agent_yaml(agent) is called
Canonicalize(c) ==
    /\ pc = "canon"
    /\ agent' = c.agent
    /\ supplied' = c.supplied
    /\ once' = canonicalize_agent_yaml(c.agent)
    /\ pc' = "canon_once"
    /\ UNCHANGED <<raw_response, parsed, attempt, ts, agent_i, saved_agents, mgr_i, fallback,
                   outcome, result, fs, dirs, clock, calls, scope, yvars, candidate, unwraps, twice>>

\* the record returned is canonicalized again
Recanonicalize ==
    /\ pc = "canon_once"
    /\ once.ok
    /\ twice' = canonicalize_agent_yaml(once.val)
    /\ pc' = "canon_twice"
    /\ UNCHANGED <<raw_response, parsed, attempt, ts, agent_i, saved_agents, mgr_i, fallback,
                   outcome, result, fs, dirs, clock, calls, scope, yvars, candidate, unwraps, agent,
                   supplied, once>>

CanonNext ==
    \/ \E c \in CanonCases : Canonicalize(c)
    \/ Recanonicalize

SpecCanon == CanonInit /\ [][CanonNext]_vars

(***************************************************************************)
(* The parsing and unwrapping loop of the version of                       *)
(* normalize_inference_output in "normalize_output copy 3.py".             *)
(***************************************************************************)
\* the bound of the unwrapping loop
MaxUnwraps == 5

\* try_parse_once(source) for a string source; None is VNone
try_parse_once(source) ==
    LET Third(l) == IF l.ok /\ IsDict(l.val) THEN l.val ELSE VNone
        Second(b) == IF ~Falsy(b) THEN b ELSE Third(literal_eval(source))
        First(a) == IF ~Falsy(a) THEN a ELSE Second(safe_json(VStr(EscapeFix(source.v))))
    IN  First(safe_json(source))

\* the keys unwrap looks for, in its order
WrapperKeys == <<K.response, K.input, K.output, K.yaml_schema, K.workflow_definition>>

RECURSIVE UnwrapFrom(_, _)
\* the for loop of unwrap from the i-th key on
UnwrapFrom(c, i) ==
    IF i > Len(WrapperKeys) THEN c
    ELSE IF ~HasKey(c, WrapperKeys[i]) THEN UnwrapFrom(c, i + 1)
    ELSE LET Or(p, inner) == IF Falsy(p) THEN inner ELSE p
             Inner(inner) ==
                 IF IsStr(inner) THEN Or(try_parse_once(inner), inner)
                 ELSE IF IsDict(inner) THEN inner
                 ELSE UnwrapFrom(c, i + 1)
         IN  Inner(c.v[WrapperKeys[i]])

\* unwrap(candidate)
unwrap(c) == IF ~IsDict(c) THEN c ELSE UnwrapFrom(c, 1)

\* the test of the while loop
WhileUnbounded(c, n) == IsDict(c)

WhileCond(c, n) == IsDict(c) /\ n < MaxUnwraps

\* deepest nesting of the envelopes
MaxDepth == 6

RECURSIVE Envelopes(_)
\* the objects that hold a payload n levels deep: a level holds the next one
\* under "response" as JSON text or under "output" as it is
Envelopes(n) ==
    IF n = 0 THEN {VDict(K.workflow_yaml :> VStr(<<"w">>)), VList(<<VNum(1)>>)}
    ELSE LET Wrap(inner) ==
                 {VDict(K.response :> VStr(json_dumps(e))) : e \in inner}
                     \cup {VDict(K.output :> e) : e \in inner}
         IN  Wrap(Envelopes(n - 1))

EnvelopeTexts == UNION {{VStr(json_dumps(e)) : e \in Envelopes(n)} : n \in 0..MaxDepth}

\* other responses: JSON that is falsy, text that is no JSON, a line break
\* inside a string, Python literals, and wrapper keys that hold a number or
\* plain text or come in another order than the one unwrap looks in
CascadeTexts ==
    {VStr(<<"[","]">>),
     VStr(<<"{","}">>),
     VStr(<<"p","l","a","i","n">>),
     VStr(<<"{","\"","w","o","r","k","f","l","o","w","_","y","a","m","l","\"",":"," ","\"","a","\n","b","\"","}">>),
     VStr(<<"{","'","w","o","r","k","f","l","o","w","_","y","a","m","l","'",":"," ","'","w","'","}">>),
     VStr(<<"[","'","a","'","]">>),
     VStr(<<"{","\"","r","e","s","p","o","n","s","e","\"",":"," ","5","}">>),
     VStr(<<"{","\"","r","e","s","p","o","n","s","e","\"",":"," ","5",","," ","\"","o","u","t","p","u","t","\"",":"," ","{","\"","w","o","r","k","f","l","o","w","_","y","a","m","l","\"",":"," ","\"","w","\"","}","}">>),
     VStr(<<"{","\"","r","e","s","p","o","n","s","e","\"",":"," ","\"","p","l","a","i","n","\"","}">>),
     VStr(<<"{","\"","i","n","p","u","t","\"",":"," ","{","\"","w","o","r","k","f","l","o","w","_","y","a","m","l","\"",":"," ","\"","w","\"","}",","," ","\"","r","e","s","p","o","n","s","e","\"",":"," ","\"","{","\\","\"","a","g","e","n","t","s","\\","\"",":"," ","[","]","}","\"","}">>)}

UnwrapInputs == EnvelopeTexts \cup CascadeTexts

UnwrapInit ==
    /\ Fresh
    /\ pc = "enter"
    /\ dirs = {}
    /\ scope = "unwrap"

\* the function is entered with raw_response = raw
Enter(raw) ==
    /\ pc = "enter"
    /\ raw_response' = raw
    /\ pc' = "try"
    /\ UNCHANGED <<parsed, attempt, ts, agent_i, saved_agents, mgr_i, fallback, outcome,
                   result, fs, dirs, clock, calls, scope, yvars, xvars>>

\* lines 118-122: an attempt starts; a falsy candidate ends it at once
TryParse ==
    /\ pc = "try"
    /\ attempt < max_attempts
    /\ attempt' = attempt + 1
    /\ \E c \in {try_parse_once(raw_response)} :
           /\ candidate' = c
           /\ pc' = IF Falsy(c) THEN "try" ELSE "while"
    /\ unwraps' = 0
    /\ UNCHANGED <<raw_response, parsed, ts, agent_i, saved_agents, mgr_i, fallback, outcome,
                   result, fs, dirs, clock, calls, scope, yvars, agent, supplied, once, twice>>

\* lines 125-130: one iteration of the while loop
UnwrapStep ==
    /\ pc = "while"
    /\ WhileCond(candidate, unwraps)
    /\ \E c \in {unwrap(candidate)} :
           /\ candidate' = c
           /\ unwraps' = IF c = candidate THEN unwraps ELSE unwraps + 1
           /\ pc' = IF c = candidate THEN "after" ELSE "while"
    /\ UNCHANGED <<raw_response, parsed, attempt, ts, agent_i, saved_agents, mgr_i, fallback,
                   outcome, result, fs, dirs, clock, calls, scope, yvars, agent, supplied, once,
                   twice>>

\* the while loop ends because its test fails
LoopExit ==
    /\ pc = "while"
    /\ ~WhileCond(candidate, unwraps)
    /\ pc' = "after"
    /\ UNCHANGED <<raw_response, parsed, attempt, ts, agent_i, saved_agents, mgr_i, fallback,
                   outcome, result, fs, dirs, clock, calls, scope, yvars, xvars>>

\* lines 132-134: a mapping ends the attempts, anything else starts the next
AfterLoop ==
    /\ pc = "after"
    /\ IF IsDict(candidate)
       THEN parsed' = candidate /\ pc' = "parsed"
       ELSE UNCHANGED parsed /\ pc' = "try"
    /\ UNCHANGED <<raw_response, attempt, ts, agent_i, saved_agents, mgr_i, fallback,
                   outcome, result, fs, dirs, clock, calls, scope, yvars, xvars>>

\* the for loop ran out of attempts
GiveUp ==
    /\ pc = "try"
    /\ attempt >= max_attempts
    /\ pc' = "parsed"
    /\ UNCHANGED <<raw_response, parsed, attempt, ts, agent_i, saved_agents, mgr_i, fallback,
                   outcome, result, fs, dirs, clock, calls, scope, yvars, xvars>>

UnwrapNext ==
    \/ \E raw \in UnwrapInputs : Enter(raw)
    \/ TryParse
    \/ UnwrapStep
    \/ LoopExit
    \/ AfterLoop
    \/ GiveUp

SpecUnwrap == UnwrapInit /\ [][UnwrapNext]_vars

(***************************************************************************)
(* Versioned agent names (utils/versioning.py) as AgentManager uses them:  *)
(* each created agent is named by generate_new_name from the agents that   *)
(* exist, and its name joins that list.  A float is held in tenths.        *)
(***************************************************************************)
\* the agents created in one run of the model
MaxCreated == 3

\* the regular expression $ at position i: the end of the text, or just
\* before a final newline
AtEnd(t, i) == i = Len(t) + 1 \/ (i = Len(t) /\ t[i] = "\n")

\* \d+$ matches t from position i
DigitsToEnd(t, i) ==
    \E e \in (i + 1)..(Len(t) + 1) : AtEnd(t, e) /\ \A j \in i..(e - 1) : IsDigit(t[j])

\* \.\d+$ matches t from position i
VersionSuffixAt(t, i) == i >= 1 /\ i < Len(t) /\ t[i] = "." /\ DigitsToEnd(t, i + 1)

\* re.split(r'\.\d+$', agent_name)[0]
extract_base_name(agent_name) ==
    LET found == {i \in 1..Len(agent_name) : VersionSuffixAt(agent_name, i)}
    IN  IF found = {} THEN agent_name
        ELSE SubSeq(agent_name, 1, Nth(found, 1) - 1)

\* float(m.group(1)) for ^<base>\.(\d+)$, None when agent_name does not match
parse_version(agent_name, base) ==
    IF /\ StartsWithAt(agent_name, 1, base)
       /\ VersionSuffixAt(agent_name, Len(base) + 1)
    THEN VFloat10(10 * ScanDigits(agent_name, Len(base) + 2, 0).val.v)
    ELSE VNone

RECURSIVE MaxOf(_)
\* max(versions) of a non-empty list of floats
MaxOf(versions) ==
    IF Len(versions) = 1 THEN versions[1]
    ELSE LET Pick(a, b) == IF a.v >= b.v THEN a ELSE b
         IN  Pick(versions[1], MaxOf(Tail(versions)))

\* the highest version of base among existing_agents, plus one; 1.0 without
get_next_version(existing_agents, base) ==
    LET parsed_all == [i \in 1..Len(existing_agents) |->
                          parse_version(Get(existing_agents[i], K.name, VStr(<<>>)).v, base)]
        versions == SelectSeq(parsed_all, LAMBDA v : v # VNone)
    IN  IF versions # <<>> THEN VFloat10(MaxOf(versions).v + 10) ELSE VFloat10(10)

\* an integer format in place of :.2f
FormatWhole(x) == DumpDigits(x.v \div 10)

\* f"{x:.2f}"
Format2f(x) == DumpDigits(x.v \div 10) \o <<".", DigitChars[(x.v % 10) + 1], "0">>

\* str.rstrip(c) for a one-character c
rstrip(s, c) == SubSeq(s, 1, LastOther(s, c, 1, Len(s)))

\* the name of the next agent made from yaml_name; agent_id and the local
\* time are appended when an agent_id is given
generate_new_name(existing_agents, yaml_name, agent_id, now_local) ==
    LET base == extract_base_name(yaml_name)
        next_v == get_next_version(existing_agents, base)
        versioned == rstrip(rstrip(base \o <<".">> \o Format2f(next_v), "0"), ".")
    IN  IF ~Falsy(agent_id)
        THEN versioned \o <<" ", "[">> \o agent_id.v \o <<" ", "|", " ">> \o now_local \o <<"]">>
        ELSE versioned

\* the yaml names of the run: a base name, alone or followed by a version
YamlNames ==
    { [base |-> <<"A">>, suffix |-> <<>>],
      [base |-> <<"A">>, suffix |-> <<".", "2">>],
      [base |-> <<"B","_","v","1">>, suffix |-> <<".", "3">>],
      [base |-> <<"A",".","1">>, suffix |-> <<".", "7">>] }

Named(n) == VDict([k \in {K.name} |-> VStr(n)])

\* the agents the platform lists before the run
ListedAgents ==
    { <<>>,
      <<Named(<<"A",".","1">>), Named(<<"A",".","2">>), Named(<<"A",".","3">>)>>,
      <<Named(<<"A",".","9">>)>>,
      <<Named(<<"A",".","3">>), Named(<<"A",".","0","5">>), EmptyDict, Named(<<"A",".","x">>),
        Named(<<"B","_","v","1",".","2">>), Named(<<"A">>)>>,
      <<Named(<<"A",".","1",".","1">>), Named(<<"A",".","1",".","4">>), Named(<<"A",".","2">>),
        Named(<<"a",".","8">>), Named(<<"A","A",".","8">>), Named(<<"A",".","8",".">>)>>,
      <<Named(<<"A",".","6"," ","[","i","7"," ","|"," ","n","o","o","n","]">>),
        Named(<<"B","_","v","1",".","1","9">>)>> }

\* the agent_id of the created agent; the function's default is None
AgentIds == {VNone, VStr(<<"i","7">>)}

\* strftime of the local time
LocalTimes == {<<"n","o","o","n">>}

VersionInit ==
    /\ Fresh
    /\ pc = "version"
    /\ dirs = {}
    /\ scope = "version"

\* _get_existing_agents: the agents the platform lists
GetExistingAgents(listed) ==
    /\ pc = "version"
    /\ ver = VNone
    /\ ver' = [existing_agents |-> listed, created |-> 0, yaml_name |-> <<>>,
               agent_id |-> VNone, name |-> <<>>]
    /\ UNCHANGED <<pc, raw_response, parsed, attempt, ts, agent_i, saved_agents, mgr_i,
                   fallback, outcome, result, fs, dirs, clock, calls, scope, xvars,
                   seen, fault, race, zvars>>

\* _create_role_agent: the new agent is named and its name is appended to
\* existing_agents
CreateAgent(yaml_name, agent_id, now_local) ==
    /\ pc = "version"
    /\ ver # VNone
    /\ ver.created < MaxCreated
    /\ LET Created(stamped_name) ==
               ver' = [existing_agents |-> Append(ver.existing_agents, Named(stamped_name)),
                       created |-> ver.created + 1, yaml_name |-> yaml_name,
                       agent_id |-> agent_id, name |-> stamped_name]
       IN  Created(generate_new_name(ver.existing_agents, yaml_name, agent_id, now_local))
    /\ UNCHANGED <<pc, raw_response, parsed, attempt, ts, agent_i, saved_agents, mgr_i,
                   fallback, outcome, result, fs, dirs, clock, calls, scope, xvars,
                   seen, fault, race, zvars>>

VersionNext ==
    \/ \E listed \in ListedAgents : GetExistingAgents(listed)
    \/ \E y \in YamlNames, agent_id \in AgentIds, now_local \in LocalTimes :
           CreateAgent(y.base \o y.suffix, agent_id, now_local)

SpecVersion == VersionInit /\ [][VersionNext]_vars

(***************************************************************************)
(* Concurrent invocations of normalize_inference_output on one out_dir.    *)
(* Each invocation has its own locals (race.inv[p]) and shares the files.  *)
(* An open-write-close of a file is one step, so a file is never seen      *)
(* truncated or half written; the read of a manager file (lines 122-132)   *)
(* and its rewrite (lines 134-135) are two steps.  race.writer[path] is    *)
(* the invocation that wrote path last.                                    *)
(***************************************************************************)
\* the invocations that run at the same time
Invocations == 2

\* parsed["agents"] of an invocation: the manager Mgr with or without a
\* description, with a role or alone
RaceAgentLists ==
    { <<Agent(Sample.N_Mgr, Sample.Y_Mgr), Agent(Sample.N_R1, Sample.Y_R1)>>,
      <<Agent(Sample.N_R2, Sample.Y_Desc), Agent(Sample.N_Mgr, <<>>)>>,
      <<Agent(Sample.N_Mgr, Sample.Y_Mgr), Agent(Sample.N_R2, Sample.Y_Desc)>>,
      <<Agent(Sample.N_Mgr, Sample.Y_Mgr)>> }

RaceInit ==
    /\ Fresh
    /\ pc = "race"
    /\ dirs = {"out"}
    /\ scope = "race"

\* the invocations are entered, each with its parsed["agents"]
RaceEnter(agents_of) ==
    /\ pc = "race"
    /\ race = VNone
    /\ race' = [inv |-> [p \in 1..Invocations |->
                            [pc |-> "save_agents", agents |-> agents_of[p], agent_i |-> 1,
                             saved_agents |-> <<>>, mgr_i |-> 1, mgr_yaml |-> VNone]],
                writer |-> <<>>]
    /\ UNCHANGED <<pc, raw_response, parsed, attempt, ts, agent_i, saved_agents, mgr_i,
                   fallback, outcome, result, fs, dirs, clock, calls, scope, xvars,
                   seen, fault, ver, zvars>>

\* lines 99-113 in invocation p: one agent is canonicalized and saved, a role
\* is copied to agents/roles
RaceSaveAgent(p) ==
    /\ pc = "race"
    /\ race # VNone
    /\ race.inv[p].pc = "save_agents"
    /\ race.inv[p].agent_i <= Len(race.inv[p].agents)
    /\ \E canon \in {canonicalize_agent_yaml(race.inv[p].agents[race.inv[p].agent_i]).val} :
       \E fname \in {AgentPath(canon.v[K.name].v)} :
           /\ fs' = IF IsManagerName(canon.v[K.name].v)
                    THEN WriteFile(fs, fname, canon)
                    ELSE WriteFile(WriteFile(fs, fname, canon), RolePath(canon.v[K.name].v), canon)
           /\ dirs' = IF IsManagerName(canon.v[K.name].v) THEN dirs ELSE dirs \cup {"roles"}
           /\ race' = [race EXCEPT !.inv[p].saved_agents = Append(@, canon),
                                   !.inv[p].agent_i = @ + 1,
                                   !.writer = WriteFile(@, fname, p)]
    /\ UNCHANGED <<pc, raw_response, parsed, attempt, ts, agent_i, saved_agents, mgr_i,
                   fallback, outcome, result, clock, calls, scope, xvars, seen, fault, ver, zvars>>

\* lines 116-119 in invocation p
RaceCollectManagers(p) ==
    /\ pc = "race"
    /\ race # VNone
    /\ race.inv[p].pc = "save_agents"
    /\ race.inv[p].agent_i > Len(race.inv[p].agents)
    /\ race' = [race EXCEPT !.inv[p].pc =
                   IF /\ ManagersOf(race.inv[p].saved_agents) # <<>>
                      /\ RolesOf(race.inv[p].saved_agents) # <<>>
                   THEN "post" ELSE "done"]
    /\ UNCHANGED <<pc, raw_response, parsed, attempt, ts, agent_i, saved_agents, mgr_i,
                   fallback, outcome, result, fs, dirs, clock, calls, scope, xvars,
                   seen, fault, ver, zvars>>

\* lines 122-132 in invocation p: the manager file is read and managed_agents
\* is set on what was read; content that is no mapping raises, the except
\* clause prints and the loop goes on
RaceReadManager(p) ==
    /\ pc = "race"
    /\ race # VNone
    /\ race.inv[p].pc = "post"
    /\ \E mgrs \in {ManagersOf(race.inv[p].saved_agents)} :
       \E mgr_path \in {AgentPath(mgrs[race.inv[p].mgr_i].v[K.name].v)} :
           race' = IF mgr_path \in DOMAIN fs /\ IsDict(fs[mgr_path])
                   THEN [race EXCEPT !.inv[p].pc = "rewrite",
                                     !.inv[p].mgr_yaml =
                                         Put(fs[mgr_path], K.managed_agents,
                                             ManagedAgents(RolesOf(race.inv[p].saved_agents)))]
                   ELSE [race EXCEPT !.inv[p].mgr_i = @ + 1,
                                     !.inv[p].pc = IF race.inv[p].mgr_i + 1 > Len(mgrs)
                                                   THEN "done" ELSE "post"]
    /\ UNCHANGED <<pc, raw_response, parsed, attempt, ts, agent_i, saved_agents, mgr_i,
                   fallback, outcome, result, fs, dirs, clock, calls, scope, xvars,
                   seen, fault, ver, zvars>>

\* lines 134-135 in invocation p: mgr_yaml is written over the manager file
RaceWriteManager(p) ==
    /\ pc = "race"
    /\ race # VNone
    /\ race.inv[p].pc = "rewrite"
    /\ \E mgrs \in {ManagersOf(race.inv[p].saved_agents)} :
       \E mgr_path \in {AgentPath(mgrs[race.inv[p].mgr_i].v[K.name].v)} :
           /\ fs' = WriteFile(fs, mgr_path, race.inv[p].mgr_yaml)
           /\ race' = [race EXCEPT !.inv[p].mgr_i = @ + 1,
                                   !.inv[p].mgr_yaml = VNone,
                                   !.inv[p].pc = IF race.inv[p].mgr_i + 1 > Len(mgrs)
                                                 THEN "done" ELSE "post",
                                   !.writer = WriteFile(@, mgr_path, p)]
    /\ UNCHANGED <<pc, raw_response, parsed, attempt, ts, agent_i, saved_agents, mgr_i,
                   fallback, outcome, result, dirs, clock, calls, scope, xvars,
                   seen, fault, ver, zvars>>

RaceNext ==
    \/ \E agents_of \in [1..Invocations -> RaceAgentLists] : RaceEnter(agents_of)
    \/ \E p \in 1..Invocations :
           \/ RaceSaveAgent(p)
           \/ RaceCollectManagers(p)
           \/ RaceReadManager(p)
           \/ RaceWriteManager(p)

SpecRace == RaceInit /\ [][RaceNext]_vars

(***************************************************************************)
(* LyzrAPIClient._request (api/client.py; api/client_async.py has the same *)
(* loop).  The server's answer to each HTTP request is an input.           *)
(***************************************************************************)
\* the largest value of self.retries taken; its default is 3
MaxRetries == 3

\* line 72
TransientStatuses == {429, 500, 502, 503}

\* what one HTTP request may meet: no response at all (a transport error), or
\* a response with a status; a 200 body is JSON or is not
Responses ==
    {[kind |-> "error", status |-> -1, json |-> FALSE]}
        \cup {[kind |-> "status", status |-> 200, json |-> j] : j \in BOOLEAN}
        \cup {[kind |-> "status", status |-> st, json |-> FALSE] :
                 st \in {204, 401, 404} \cup TransientStatuses}

\* r.raise_for_status() returns: the status is 2xx
IsSuccess(resp) == resp.kind = "status" /\ resp.status >= 200 /\ resp.status <= 299

RECURSIVE Pow2(_)
\* 2 ** n
Pow2(n) == IF n = 0 THEN 1 ELSE 2 * Pow2(n - 1)

RequestInit ==
    /\ Fresh
    /\ pc = "request"
    /\ dirs = {}
    /\ scope = "request"

\* _request is entered on a client built with this retries
RequestEnter(retries, stream) ==
    /\ pc = "request"
    /\ req = VNone
    /\ req' = [pc |-> "loop", retries |-> retries, stream |-> stream, attempt |-> 0,
               issued |-> 0, last |-> [kind |-> "none", status |-> 0, json |-> FALSE],
               slept |-> <<>>, outcome |-> "none", result |-> VNone]
    /\ UNCHANGED <<pc, raw_response, parsed, attempt, ts, agent_i, saved_agents, mgr_i,
                   fallback, outcome, result, fs, dirs, clock, calls, scope, xvars,
                   seen, fault, ver, race, retrying, batch>>

\* lines 59-91: one iteration of the loop.  With stream the response body is
\* never read, so r.text in the handler of HTTPStatusError raises
\* ResponseNotRead, which no except clause of the function catches
SendRequest(resp) ==
    /\ pc = "request"
    /\ req # VNone
    /\ req.pc = "loop"
    /\ req.attempt < req.retries
    /\ LET Sent == [req EXCEPT !.issued = @ + 1, !.last = resp]
           Ended(r, how, res) == [r EXCEPT !.pc = "done", !.outcome = how, !.result = res]
       IN  req' =
               IF resp.kind = "error"
               THEN Ended(Sent, "returned", [ok |-> FALSE, status |-> -1, data |-> "str(e)"])
               ELSE IF IsSuccess(resp)
               THEN Ended(Sent, "returned",
                          [ok |-> TRUE, status |-> resp.status,
                           data |-> IF req.stream THEN "r.iter_text()"
                                    ELSE IF resp.json THEN "r.json()" ELSE "r.text"])
               ELSE IF resp.status \in TransientStatuses /\ req.attempt < req.retries - 1
               THEN [Sent EXCEPT !.attempt = @ + 1, !.slept = Append(@, Pow2(req.attempt))]
               ELSE IF req.stream
               THEN Ended(Sent, "raised", VNone)
               ELSE Ended(Sent, "returned",
                          [ok |-> FALSE, status |-> resp.status, data |-> "r.text"])
    /\ UNCHANGED <<pc, raw_response, parsed, attempt, ts, agent_i, saved_agents, mgr_i,
                   fallback, outcome, result, fs, dirs, clock, calls, scope, xvars,
                   seen, fault, ver, race, retrying, batch>>

\* line 93: the loop ended without a return
MaxRetriesExceeded ==
    /\ pc = "request"
    /\ req # VNone
    /\ req.pc = "loop"
    /\ req.attempt >= req.retries
    /\ req' = [req EXCEPT !.pc = "done", !.outcome = "returned",
                          !.result = [ok |-> FALSE, status |-> -1,
                                      data |-> "Max retries exceeded"]]
    /\ UNCHANGED <<pc, raw_response, parsed, attempt, ts, agent_i, saved_agents, mgr_i,
                   fallback, outcome, result, fs, dirs, clock, calls, scope, xvars,
                   seen, fault, ver, race, retrying, batch>>

RequestNext ==
    \/ \E retries \in 0..MaxRetries, stream \in BOOLEAN : RequestEnter(retries, stream)
    \/ \E resp \in Responses : SendRequest(resp)
    \/ MaxRetriesExceeded

SpecRequest == RequestInit /\ [][RequestNext]_vars

(***************************************************************************)
(* run_with_retries and is_valid_response (utils/response_validator.py).   *)
(* What request_fn returns at each call is an input.                       *)
(***************************************************************************)
\* the largest max_retries taken; its default is 5
MaxRetryCalls == 3

RequiredKeys ==
    <<<<"w","o","r","k","f","l","o","w","_","n","a","m","e">>, K.workflow_yaml, K.agents>>

\* k in data; ok is FALSE when the test raises TypeError
KeyIn(k, data) ==
    CASE data.t = "dict" -> [ok |-> TRUE, val |-> HasKey(data, k)]
      [] data.t = "list" -> [ok |-> TRUE, val |-> \E i \in 1..Len(data.v) : data.v[i] = VStr(k)]
      [] data.t = "str" -> [ok |-> TRUE, val |-> InText(k, data.v)]
      [] OTHER -> [ok |-> FALSE, val |-> FALSE]

\* yaml.safe_load(x) returns without an exception
YamlLoads(x) == IsStr(x) /\ yaml_safe_load(x.v).ok

\* lines 16-17: every agent has .get and its yaml loads
AgentsLoad(agents) ==
    /\ IterItems(agents).ok
    /\ \A i \in 1..Len(IterItems(agents).items) :
           /\ IsDict(IterItems(agents).items[i])
           /\ YamlLoads(Get(IterItems(agents).items[i], K.yaml, VStr(<<>>)))

\* is_valid_response without lines 14-17
is_valid_response_keys_only(resp) ==
    LET Checked(data) ==
            IF /\ data.ok
               /\ \A i \in 1..Len(RequiredKeys) : KeyIn(RequiredKeys[i], data.val).ok
               /\ \A i \in 1..Len(RequiredKeys) : KeyIn(RequiredKeys[i], data.val).val
               /\ IsDict(data.val)
            THEN [ok |-> TRUE, data |-> data.val]
            ELSE [ok |-> FALSE, data |-> VNone]
    IN  Checked(IF IsStr(resp) THEN json_loads(resp) ELSE [ok |-> TRUE, val |-> resp])

\* is_valid_response(resp): ok and data of the tuple returned
is_valid_response(resp) ==
    LET Checked(data) ==
            IF /\ data.ok
               /\ \A i \in 1..Len(RequiredKeys) : KeyIn(RequiredKeys[i], data.val).ok
               /\ \A i \in 1..Len(RequiredKeys) : KeyIn(RequiredKeys[i], data.val).val
               /\ IsDict(data.val)
               /\ YamlLoads(data.val.v[K.workflow_yaml])
               /\ AgentsLoad(Get(data.val, K.agents, VList(<<>>)))
            THEN [ok |-> TRUE, data |-> data.val]
            ELSE [ok |-> FALSE, data |-> VNone]
    IN  Checked(IF IsStr(resp) THEN json_loads(resp) ELSE [ok |-> TRUE, val |-> resp])

\* what request_fn may return, each with whether it has the three keys and
\* only YAML that parses
ValidatorCases ==
    { [resp |-> VStr(<<"{","\"","w","o","r","k","f","l","o","w","_","n","a","m","e","\"",":"," ","\"","W","\"",","," ","\"","w","o","r","k","f","l","o","w","_","y","a","m","l","\"",":"," ","\"","f","l","o","w","_","n","a","m","e",":"," ","X","\"",","," ","\"","a","g","e","n","t","s","\"",":"," ","[","{","\"","n","a","m","e","\"",":"," ","\"","R","1","\"",","," ","\"","y","a","m","l","\"",":"," ","\"","n","a","m","e",":"," ","R","1","\"","}","]","}">>),
       valid |-> TRUE],
      [resp |-> VStr(<<"{","\"","w","o","r","k","f","l","o","w","_","n","a","m","e","\"",":"," ","\"","W","\"",","," ","\"","w","o","r","k","f","l","o","w","_","y","a","m","l","\"",":"," ","\"","a",":"," ","1","\"",","," ","\"","a","g","e","n","t","s","\"",":"," ","[","]","}">>),
       valid |-> TRUE],
      [resp |-> VStr(<<"{","\"","w","o","r","k","f","l","o","w","_","y","a","m","l","\"",":"," ","\"","a",":"," ","1","\"",","," ","\"","a","g","e","n","t","s","\"",":"," ","[","]","}">>),
       valid |-> FALSE],
      [resp |-> VStr(<<"{","\"","w","o","r","k","f","l","o","w","_","n","a","m","e","\"",":"," ","\"","W","\"",","," ","\"","w","o","r","k","f","l","o","w","_","y","a","m","l","\"",":"," ","\"","a",":"," ","[","\"",","," ","\"","a","g","e","n","t","s","\"",":"," ","[","]","}">>),
       valid |-> FALSE],
      [resp |-> VStr(<<"{","\"","w","o","r","k","f","l","o","w","_","n","a","m","e","\"",":"," ","\"","W","\"",","," ","\"","w","o","r","k","f","l","o","w","_","y","a","m","l","\"",":"," ","\"","a",":"," ","1","\"",","," ","\"","a","g","e","n","t","s","\"",":"," ","[","{","\"","y","a","m","l","\"",":"," ","\"","a",":"," ","[","\"","}","]","}">>),
       valid |-> FALSE],
      [resp |-> VStr(<<"o","o","p","s">>),
       valid |-> FALSE],
      [resp |-> VStr(<<"[","\"","w","o","r","k","f","l","o","w","_","n","a","m","e","\"",","," ","\"","w","o","r","k","f","l","o","w","_","y","a","m","l","\"",","," ","\"","a","g","e","n","t","s","\"","]">>),
       valid |-> FALSE],
      [resp |-> VDict((RequiredKeys[1] :> VStr(<<"W">>))
                   @@ (K.workflow_yaml :> VStr(Sample.W_Other))
                   @@ (K.agents :> VList(<<Agent(Sample.N_R1, Sample.Y_R1)>>))),
       valid |-> TRUE],
      [resp |-> EmptyDict, valid |-> FALSE] }

RetryInit ==
    /\ Fresh
    /\ pc = "retry"
    /\ dirs = {}
    /\ scope = "retry"

\* run_with_retries is entered
RetryEnter(max_retries, backoff) ==
    /\ pc = "retry"
    /\ retrying = VNone
    /\ retrying' = [pc |-> "loop", max_retries |-> max_retries, backoff |-> backoff,
                    attempt |-> 1, requests |-> <<>>, slept |-> <<>>,
                    outcome |-> "none", result |-> VNone]
    /\ UNCHANGED <<pc, raw_response, parsed, attempt, ts, agent_i, saved_agents, mgr_i,
                   fallback, outcome, result, fs, dirs, clock, calls, scope, xvars,
                   seen, fault, ver, race, req, batch>>

\* lines 24-35: one iteration; request_fn returns c.resp
RetryAttempt(c) ==
    /\ pc = "retry"
    /\ retrying # VNone
    /\ retrying.pc = "loop"
    /\ retrying.attempt <= retrying.max_retries
    /\ LET Called == [retrying EXCEPT !.requests = Append(@, c)]
           After(v) ==
               IF v.ok
               THEN [Called EXCEPT !.pc = "done", !.outcome = "returned", !.result = v.data]
               ELSE [Called EXCEPT !.attempt = @ + 1,
                                   !.slept = IF retrying.attempt < retrying.max_retries
                                             THEN Append(@, retrying.backoff * retrying.attempt)
                                             ELSE @]
       IN  retrying' = After(is_valid_response(c.resp))
    /\ UNCHANGED <<pc, raw_response, parsed, attempt, ts, agent_i, saved_agents, mgr_i,
                   fallback, outcome, result, fs, dirs, clock, calls, scope, xvars,
                   seen, fault, ver, race, req, batch>>

\* line 37: the loop is over, RuntimeError is raised
RetryFail ==
    /\ pc = "retry"
    /\ retrying # VNone
    /\ retrying.pc = "loop"
    /\ retrying.attempt > retrying.max_retries
    /\ retrying' = [retrying EXCEPT !.pc = "done", !.outcome = "RuntimeError"]
    /\ UNCHANGED <<pc, raw_response, parsed, attempt, ts, agent_i, saved_agents, mgr_i,
                   fallback, outcome, result, fs, dirs, clock, calls, scope, xvars,
                   seen, fault, ver, race, req, batch>>

RetryNext ==
    \/ \E max_retries \in 0..MaxRetryCalls, backoff \in {1, 3} : RetryEnter(max_retries, backoff)
    \/ \E c \in ValidatorCases : RetryAttempt(c)
    \/ RetryFail

SpecRetry == RetryInit /\ [][RetryNext]_vars

(***************************************************************************)
(* LyzrAPIClient.run_manager_with_usecases (api/client.py).  The class     *)
(* defines no create_agent, so the attribute lookup self.create_agent in   *)
(* create_manager_with_roles raises AttributeError.                        *)
(***************************************************************************)
\* the most use cases in the use-cases file
MaxUseCases == 2
\* the most entries of managed_agents in the manager file
MaxManaged == 2

\* an entry of managed_agents: whether it carries a role YAML (lines 146-149)
ManagedEntries == [has_yaml : BOOLEAN]

UseCaseNames == {<<"A">>, <<"B">>}

BatchInit ==
    /\ Fresh
    /\ pc = "batch"
    /\ dirs = {}
    /\ scope = "batch"

\* lines 216-221: the call, up to the call of create_manager_with_roles;
\* results is not bound yet
BatchEnter(exists, managed, usecases, max_retries) ==
    /\ pc = "batch"
    /\ batch = VNone
    /\ batch' = [pc |-> "load", exists |-> exists, managed |-> managed,
                 usecases |-> usecases, max_retries |-> max_retries, role_i |-> 1,
                 posts |-> 0, outcome |-> "none", results |-> VNone]
    /\ UNCHANGED <<pc, raw_response, parsed, attempt, ts, agent_i, saved_agents, mgr_i,
                   fallback, outcome, result, fs, dirs, clock, calls, scope, xvars,
                   seen, fault, ver, race, req, retrying>>

\* lines 133-142: the manager file is read; a path that does not exist is
\* itself parsed as YAML and gives a str, whose .get raises
LoadManager ==
    /\ pc = "batch"
    /\ batch # VNone
    /\ batch.pc = "load"
    /\ batch' = IF batch.exists
                THEN [batch EXCEPT !.pc = "roles"]
                ELSE [batch EXCEPT !.pc = "done", !.outcome = "AttributeError"]
    /\ UNCHANGED <<pc, raw_response, parsed, attempt, ts, agent_i, saved_agents, mgr_i,
                   fallback, outcome, result, fs, dirs, clock, calls, scope, xvars,
                   seen, fault, ver, race, req, retrying>>

\* lines 142-154: one entry of managed_agents; with a role YAML it reaches
\* self.create_agent(role_payload)
CreateRole ==
    /\ pc = "batch"
    /\ batch # VNone
    /\ batch.pc = "roles"
    /\ batch.role_i <= Len(batch.managed)
    /\ batch' = IF batch.managed[batch.role_i].has_yaml
                THEN [batch EXCEPT !.pc = "done", !.outcome = "AttributeError"]
                ELSE [batch EXCEPT !.role_i = @ + 1]
    /\ UNCHANGED <<pc, raw_response, parsed, attempt, ts, agent_i, saved_agents, mgr_i,
                   fallback, outcome, result, fs, dirs, clock, calls, scope, xvars,
                   seen, fault, ver, race, req, retrying>>

\* lines 164-169: self.create_agent(manager_payload)
CreateManagerAgent ==
    /\ pc = "batch"
    /\ batch # VNone
    /\ batch.pc = "roles"
    /\ batch.role_i > Len(batch.managed)
    /\ batch' = [batch EXCEPT !.pc = "done", !.outcome = "AttributeError"]
    /\ UNCHANGED <<pc, raw_response, parsed, attempt, ts, agent_i, saved_agents, mgr_i,
                   fallback, outcome, result, fs, dirs, clock, calls, scope, xvars,
                   seen, fault, ver, race, req, retrying>>

BatchNext ==
    \/ \E exists \in BOOLEAN, m \in 0..MaxManaged, u \in 0..MaxUseCases,
          max_retries \in 0..MaxRetries :
          \E managed \in [1..m -> ManagedEntries], usecases \in [1..u -> UseCaseNames] :
              BatchEnter(exists, managed, usecases, max_retries)
    \/ LoadManager
    \/ CreateRole
    \/ CreateManagerAgent

SpecBatch == BatchInit /\ [][BatchNext]_vars

(***************************************************************************)
(* Properties                                                              *)
(***************************************************************************)
\* two characters are the same letter, whatever their case
SameLetter(a, b) == a = b \/ \E i \in 1..26 : {a, b} = {LowerChars[i], UpperChars[i]}

\* word occurs in name when case is ignored
ContainsIgnoringCase(name, word) ==
    \E p \in 1..Len(name) :
        /\ p + Len(word) - 1 <= Len(name)
        /\ \A i \in 1..Len(word) : SameLetter(name[p + i - 1], word[i])

\* the name says manager
SaysManager(name) ==
    \/ ContainsIgnoringCase(name, <<"m","a","n","a","g","e","r">>)
    \/ ContainsIgnoringCase(name, <<"m","g","r">>)

\* C1: every call with a writable out_dir, whether raw_response is a string
\* or an object, ends by returning a result that is not None; it never raises.
C1_Totality ==
    (pc = "done" /\ "out" \in dirs) => (outcome = "returned" /\ result # VNone)

\* C2: canonicalizing the record that canonicalize_agent_yaml returned gives
\* that same record again.
C2_Idempotent ==
    pc = "canon_twice" => twice = once

\* C3: the unwrap counter never exceeds 5, and every pass of the while loop
\* that stays in the loop adds one to it, so the loop ends after at most 5
\* unwrap steps however deep the envelope is nested.
C3_UnwrapBounded ==
    [][/\ unwraps' <= 5
       /\ (pc = "while" /\ pc' = "while") => unwraps' = unwraps + 1]_vars

\* the loop stopped at the bound with a wrapper still around the payload
C3_StoppedAtBound ==
    /\ pc = "after"
    /\ unwraps = 5
    /\ IsDict(candidate)
    /\ (HasKey(candidate, K.response) \/ HasKey(candidate, K.output))

\* C4: when a call returns, the file of every manager it wrote carries
\* managed_agents with one entry per role agent the call wrote, in order,
\* each naming agents/roles/<role name>.yaml; if the call wrote no role
\* agent the manager files carry no managed_agents.
C4_ManagedAgents ==
    (pc = "done" /\ outcome = "returned") =>
        LET Linked(roles) ==
                \A i \in 1..Len(saved_agents) :
                    SaysManager(saved_agents[i].v[K.name].v) =>
                        LET File(f) ==
                                IF roles = <<>> THEN ~HasKey(f, K.managed_agents)
                                ELSE /\ HasKey(f, K.managed_agents)
                                     /\ Len(f.v[K.managed_agents].v) = Len(roles)
                                     /\ \A j \in 1..Len(roles) :
                                            f.v[K.managed_agents].v[j].v[K.file] =
                                                VStr(<<"a","g","e","n","t","s","/","r","o","l","e","s","/">>
                                                     \o roles[j].v[K.name].v
                                                     \o <<".","y","a","m","l">>)
                        IN  File(fs[AgentPath(saved_agents[i].v[K.name].v)])
        IN  Linked(SelectSeq(saved_agents, LAMBDA a : ~SaysManager(a.v[K.name].v)))

\* a call wrote a manager and two roles and returned
C4_ManagerWithTwoRoles ==
    /\ pc = "done"
    /\ outcome = "returned"
    /\ \E i \in 1..Len(saved_agents) :
           /\ SaysManager(saved_agents[i].v[K.name].v)
           /\ HasKey(fs[AgentPath(saved_agents[i].v[K.name].v)], K.managed_agents)
           /\ Len(fs[AgentPath(saved_agents[i].v[K.name].v)].v[K.managed_agents].v) = 2

\* the names of the agents of a result or of a canonical object
NamesOf(x) ==
    IF HasKey(x, K.agents) /\ IsList(x.v[K.agents])
    THEN {Get(x.v[K.agents].v[i], K.name, VNone) : i \in 1..Len(x.v[K.agents].v)}
    ELSE {}

\* C5: normalizing the JSON serialization of a canonical object returns a
\* result with the workflow_yaml text and the set of agent names of the object.
C5_RoundTrip ==
    \A o \in CanonicalObjects :
        (pc = "done" /\ "out" \in dirs /\ raw_response = VStr(CanonicalTexts[o])) =>
            /\ outcome = "returned"
            /\ Get(result, K.workflow_yaml, VNone) = o.v[K.workflow_yaml]
            /\ NamesOf(result) = NamesOf(o)

\* the values of the  "key": "value"  fields of a text in order of occurrence,
\* each read as a JSON string
FieldValues(t, key) ==
    LET Opening == <<"\"">> \o key \o <<"\"", ":", " ", "\"">>
        Values(ps) ==
            [k \in 1..Cardinality(ps) |->
                ScanString(t, Nth(ps, k) + Len(Opening), "\"", "json").val]
    IN  Values({p \in 1..Len(t) : StartsWithAt(t, p, Opening)})

\* C6: when the structured decodes fail on a string, the call returns a
\* result holding under workflow_yaml the decoded value of the first
\* "workflow_yaml" field of the text and under agents one entry per "yaml"
\* field of the text, in order, each with the decoded value of the field.
C6_FallbackSalvage ==
    (pc = "done" /\ fallback /\ IsStr(raw_response) /\ "out" \in dirs) =>
        LET Salvaged(wfs, ys) ==
                /\ outcome = "returned"
                /\ wfs # <<>> => Get(result, K.workflow_yaml, VNone) = wfs[1]
                /\ ys # <<>> =>
                       /\ HasKey(result, K.agents)
                       /\ Len(result.v[K.agents].v) = Len(ys)
                       /\ \A i \in 1..Len(ys) :
                              Get(result.v[K.agents].v[i], K.yaml, VNone) = ys[i]
        IN  Salvaged(FieldValues(raw_response.v, K.workflow_yaml),
                     FieldValues(raw_response.v, K.yaml))

\* the fields of the canonical record a mapping may supply
SuppliableFields ==
    {K.description, K.agent_role, K.agent_goal, K.agent_instructions, K.features, K.tools,
     K.response_format, K.llm_config}

TreatedAsManager(rec) == Get(rec, K.tool_usage_description, VNone) = VStr(T.ManagerUsage)

\* C8: an agent whose YAML gives no tool_usage_description is treated as a
\* manager exactly when its name contains "manager" or "mgr", case ignored;
\* HR_Manager_v1 and ARCHITECT_MGR are managers, Candidate_Screening_Role is
\* a role.
C8_ManagerByName ==
    (pc \in {"canon_once", "canon_twice"} /\ once.ok
        /\ ~HasKey(supplied, K.tool_usage_description)) =>
        LET Name(n) ==
                /\ TreatedAsManager(once.val) <=> SaysManager(n)
                /\ n = <<"H","R","_","M","a","n","a","g","e","r","_","v","1">>
                       => TreatedAsManager(once.val)
                /\ n = <<"A","R","C","H","I","T","E","C","T","_","M","G","R">>
                       => TreatedAsManager(once.val)
                /\ n = <<"C","a","n","d","i","d","a","t","e","_","S","c","r","e","e","n","i","n","g","_","R","o","l","e">>
                       => ~TreatedAsManager(once.val)
        IN  Name(once.val.v[K.name].v)

\* an agent named in upper case was treated as a manager
C8_UpperCaseManager ==
    /\ pc = "canon_once"
    /\ once.ok
    /\ once.val.v[K.name] = VStr(<<"A","R","C","H","I","T","E","C","T","_","M","G","R">>)
    /\ TreatedAsManager(once.val)

\* C9: the canonical record has every key of the schema, and its llm_config
\* has provider_id, model, temperature, top_p and response_format, also when
\* the YAML supplies an llm_config of its own.
C9_SchemaComplete ==
    (pc \in {"canon_once", "canon_twice"} /\ once.ok) =>
        /\ \A k \in {K.template_type, K.name, K.description, K.agent_role, K.agent_goal,
                     K.agent_instructions, K.features, K.tools, K.tool_usage_description,
                     K.response_format, K.llm_config} : HasKey(once.val, k)
        /\ IsDict(once.val.v[K.llm_config])
        /\ \A k \in {K.provider_id, K.model, K.temperature, K.top_p, K.response_format} :
               HasKey(once.val.v[K.llm_config], k)

\* C10: every result returned has at least one of the keys workflow_yaml,
\* agents and raw_string.
C10_SomeKnownKey ==
    (pc = "done" /\ outcome = "returned") =>
        \/ HasKey(result, K.workflow_yaml)
        \/ HasKey(result, K.agents)
        \/ HasKey(result, K.raw_string)

\* C11: a returned result has the key raw_string exactly when the call took
\* the regex fallback, and the value under it is then raw_response itself.
C11_RawStringIffFallback ==
    (pc = "done" /\ outcome = "returned") =>
        /\ HasKey(result, K.raw_string) <=> fallback
        /\ fallback => result.v[K.raw_string] = raw_response

\* C12: after a call whose result has a workflow text and no agents, out_dir
\* exists and holds the workflow file, whether or not out_dir existed when
\* the call began.
C12_OutDirCreated ==
    (/\ pc = "done"
     /\ HasKey(parsed, K.workflow_yaml)
     /\ IsStr(parsed.v[K.workflow_yaml])
     /\ ~HasKey(parsed, K.agents)) =>
        /\ outcome = "returned"
        /\ "out" \in dirs
        /\ WorkflowPath(ts) \in DOMAIN fs

\* C13: a call in which a file operation failed ends by raising, and a call
\* that raises is one in which a file operation failed (out_dir missing, or
\* the manager file could not be read or rewritten).
C13_OnlyFilesystemFailuresPropagate ==
    pc = "done" =>
        /\ fault # "none" => outcome = "raised"
        /\ outcome = "raised" => (fault # "none" \/ "out" \notin dirs)

\* the manager file could not be rewritten and the call returned all the same
C13_FailureSwallowed ==
    /\ pc = "done"
    /\ fault = "manager_file"
    /\ outcome = "returned"

\* C15: a call ends the way every earlier call with the same raw_response
\* ended, with the same result, whatever calls came in between and whatever
\* files they left.
C15_ResultDependsOnInputOnly ==
    pc = "done" =>
        \A h \in seen :
            h.raw = raw_response => (h.outcome = outcome /\ h.result = result)

\* a response was normalized a second time, into a directory that already
\* held the files of the first call, and returned agents
C15_SameInputAgain ==
    /\ pc = "done"
    /\ outcome = "returned"
    /\ HasKey(result, K.agents)
    /\ fs # <<>>
    /\ \E h \in seen : h.raw = raw_response /\ h.outcome = "returned"

\* C20: the fallback step never raises on a string, and it leaves out
\* workflow_yaml, or agents, when the pattern of that key does not occur.
C20_FallbackNeverRaises ==
    [][(pc = "fallback" /\ IsStr(raw_response)) =>
           /\ outcome' # "raised"
           /\ ~re_search(raw_response.v, K.workflow_yaml).ok => ~HasKey(parsed', K.workflow_yaml)
           /\ ~re_search(raw_response.v, K.yaml).ok => ~HasKey(parsed', K.agents)]_vars

\* C17: whatever unwrap returns for a mapping is a mapping: once a step of
\* the loop has unwrapped the candidate, the candidate is a mapping.
C17_UnwrapGivesMapping ==
    (pc \in {"while", "after"} /\ unwraps > 0) => IsDict(candidate)

\* the value of the first of the three strategies that decodes source:
\* json.loads, json.loads after the escape fix, literal_eval giving a mapping
FirstDecoded(source) ==
    LET Third(l) == IF l.ok /\ IsDict(l.val) THEN l.val ELSE VNone
        Second(b) == IF b.ok THEN b.val ELSE Third(literal_eval(source))
        First(a) == IF a.ok THEN a.val ELSE Second(json_loads(VStr(EscapeFix(source.v))))
    IN  First(json_loads(source))

\* C18: try_parse_once returns the value of the first strategy that decodes
\* the text, and None only when none of the three does.
C18_FirstSuccessWins ==
    (pc \in {"try", "while"} /\ attempt > 0 /\ unwraps = 0) =>
        candidate = FirstDecoded(raw_response)

\* the value under wrapper key k as unwrap descends into it
Descended(c, k) ==
    LET Or(p, inner) == IF Falsy(p) THEN inner ELSE p
    IN  IF IsStr(c.v[k]) THEN Or(try_parse_once(c.v[k]), c.v[k]) ELSE c.v[k]

\* the first wrapper key, in the order of the list, that c has
FirstWrapperKey(c) ==
    WrapperKeys[CHOOSE i \in 1..Len(WrapperKeys) :
                    /\ HasKey(c, WrapperKeys[i])
                    /\ \A j \in 1..(i - 1) : ~HasKey(c, WrapperKeys[j])]

\* C19: a step that unwraps descends into the first wrapper key found, in
\* the order response, input, output, yaml_schema, workflow_definition; and
\* when the loop ends on a mapping, the mapping has none of these keys or 5
\* steps were made.
C19_FirstKeyUntilNoneLeft ==
    [][/\ (pc = "while" /\ candidate' # candidate) =>
              candidate' = Descended(candidate, FirstWrapperKey(candidate))
       /\ (pc = "while" /\ pc' = "after" /\ IsDict(candidate')) =>
              \/ \A i \in 1..Len(WrapperKeys) : ~HasKey(candidate', WrapperKeys[i])
              \/ unwraps' = 5]_vars

\* the stamp generate_new_name appends for agent_id: nothing without one
StampOf(agent_id, now_local) ==
    IF agent_id = VNone THEN <<>>
    ELSE <<" ", "[">> \o agent_id.v \o <<" ", "|", " ">> \o now_local \o <<"]">>

\* the numbers N such that an agent of existing is named <base>.<N>
SuffixesOf(existing, base) ==
    {n \in 0..40 : \E i \in 1..Len(existing) :
        /\ HasKey(existing[i], K.name)
        /\ existing[i].v[K.name].v \in {base \o <<".">> \o DumpDigits(n),
                                        base \o <<".", "0">> \o DumpDigits(n)}}

\* <base>.<highest N + 1>, <base>.1 when no agent is named <base>.<N>
NextVersionName(existing, base) ==
    LET suffixes == SuffixesOf(existing, base)
    IN  IF suffixes = {} THEN base \o <<".", "1">>
        ELSE base \o <<".">> \o DumpDigits((CHOOSE m \in suffixes : \A n \in suffixes : n <= m) + 1)

\* C16: the name given to a created agent is its base name, '.', and one more
\* than the highest N among the existing agents named <base>.<N>, or <base>.1
\* when there is none (followed by the id and time stamp when an agent_id is
\* given)
C16_NextVersionName ==
    [][(ver # VNone /\ ver' # VNone /\ ver'.created = ver.created + 1) =>
          \E y \in YamlNames, now_local \in LocalTimes :
              /\ y.base \o y.suffix = ver'.yaml_name
              /\ ver'.name = NextVersionName(ver.existing_agents, y.base)
                                 \o StampOf(ver'.agent_id, now_local)]_vars

\* the first agent created when A.1, A.2 and A.3 exist is named A.4
C16_FourthVersion ==
    /\ ver # VNone
    /\ ver.created = 1
    /\ Len(ver.existing_agents) = 4
    /\ \A n \in 1..3 : ver.existing_agents[n] = Named(<<"A", ".", DigitChars[n + 1]>>)
    /\ ver.name = <<"A", ".", "4">>

\* the manager file Mgr.yaml as an invocation with these agents leaves it
\* when it runs alone
WrittenAlone(agents) ==
    LET saved == [i \in 1..Len(agents) |-> canonicalize_agent_yaml(agents[i]).val]
        Updated(mgr) == IF RolesOf(saved) # <<>>
                        THEN Put(mgr, K.managed_agents, ManagedAgents(RolesOf(saved)))
                        ELSE mgr
    IN  Updated(ManagersOf(saved)[1])

AllDone == race # VNone /\ \A p \in 1..Invocations : race.inv[p].pc = "done"

\* C14: when concurrent invocations have finished, the manager file holds
\* exactly what the invocation that wrote it last would have written
C14_LastWriterWins ==
    AllDone =>
        fs[AgentPath(Sample.N_Mgr)] =
            WrittenAlone(race.inv[race.writer[AgentPath(Sample.N_Mgr)]].agents)

\* the manager file ends with the managed_agents of the invocation that
\* wrote last on the manager record of the other invocation
C14_MixedManagerFile ==
    /\ AllDone
    /\ \E p, q \in 1..Invocations :
           /\ p # q
           /\ race.writer[AgentPath(Sample.N_Mgr)] = p
           /\ HasKey(fs[AgentPath(Sample.N_Mgr)], K.managed_agents)
           /\ fs[AgentPath(Sample.N_Mgr)] # WrittenAlone(race.inv[p].agents)
           /\ fs[AgentPath(Sample.N_Mgr)] =
                  Put(WrittenAlone(race.inv[q].agents), K.managed_agents,
                      WrittenAlone(race.inv[p].agents).v[K.managed_agents])

\* C21: canonicalize_agent_yaml returns a canonical record for every mapping
\* given to it, whatever its YAML text decodes to and with or without a name;
\* it never raises.
C21_CanonicalizeTotal ==
    (pc = "canon_once" /\ IsDict(agent)) => (once.ok /\ IsDict(once.val))

\* C22: the regex fallback is entered only when decoding and unwrapping have
\* not left a mapping in parsed; a call that did not take the fallback
\* returns the mapping they left.
C22_FallbackOnlyWithoutMapping ==
    /\ pc = "fallback" => ~IsDict(parsed)
    /\ (pc = "done" /\ outcome = "returned" /\ ~fallback) => (IsDict(result) /\ result = parsed)

\* a governance feature entry
GovernanceFeature(type, priority) ==
    VDict((<<"t","y","p","e">> :> VStr(type))
       @@ (<<"c","o","n","f","i","g">> :> EmptyDict)
       @@ (<<"p","r","i","o","r","i","t","y">> :> VNum(priority)))

GovernanceFeatures ==
    <<GovernanceFeature(<<"y","a","m","l","_","s","y","n","t","a","x","_","v","a","l","i","d","a","t","i","o","n">>, 0),
      GovernanceFeature(<<"c","a","n","o","n","i","c","a","l","_","s","t","r","u","c","t","u","r","e","_","c","h","e","c","k">>, 1)>>

\* C23: the record of an agent whose name says manager has the fixed sentence
\* as tool_usage_description unless the YAML supplies one, which is kept, and
\* its features end with the two governance entries yaml_syntax_validation
\* and canonical_structure_check; the record of a role has neither.
C23_ManagerGovernance ==
    (pc = "canon_once" /\ once.ok) =>
        LET Record(rec, mgr, given) ==
                /\ rec.v[K.tool_usage_description] =
                       IF HasKey(supplied, K.tool_usage_description)
                       THEN supplied.v[K.tool_usage_description]
                       ELSE IF mgr
                       THEN VStr(<<"T","h","e"," ","m","a","n","a","g","e","r"," ","o","r","c","h","e","s","t","r","a","t","e","s"," ","s","u","b","o","r","d","i","n","a","t","e"," ","r","o","l","e"," ","a","g","e","n","t","s"," ","a","n","d"," ","p","a","c","k","a","g","e","s"," ","o","u","t","p","u","t","s",".">>)
                       ELSE VStr(<<>>)
                /\ rec.v[K.features] =
                       IF mgr THEN VList(given.v \o GovernanceFeatures) ELSE given
        IN  Record(once.val, SaysManager(once.val.v[K.name].v),
                   Get(supplied, K.features, VList(<<>>)))

\* the mapping d without the key k
Without(d, k) == VDict([kk \in (DOMAIN d.v) \ {k} |-> d.v[kk]])

\* the agent blocks of a result
AgentBlocksOf(x) == IF HasKey(x, K.agents) THEN IterItems(x.v[K.agents]).items ELSE <<>>

\* C24: when a call has returned, every agent block of the result has its
\* file <name>.yaml in out_dir, and the file holds the canonical form of
\* that agent (with managed_agents added when it is a manager).
C24_OneFilePerAgent ==
    (pc = "done" /\ outcome = "returned") =>
        \A i \in 1..Len(AgentBlocksOf(result)) :
            LET Saved(canon) ==
                    /\ canon.ok
                    /\ AgentPath(canon.val.v[K.name].v) \in DOMAIN fs
                    /\ Without(fs[AgentPath(canon.val.v[K.name].v)], K.managed_agents) = canon.val
            IN  Saved(canonicalize_agent_yaml(AgentBlocksOf(result)[i]))

\* C25: when a call has returned, every agent it saved whose name does not
\* say manager has a copy <name>.yaml in agents/roles equal to its file in
\* out_dir, no agent whose name says manager has one, and each saved agent is
\* either copied there or in the list of managers to patch, never both.
C25_RolesMirrored ==
    (pc = "done" /\ outcome = "returned") =>
        \A i \in 1..Len(saved_agents) :
            LET Placed(a, n) ==
                    /\ ~SaysManager(n) =>
                           /\ RolePath(n) \in DOMAIN fs
                           /\ fs[RolePath(n)] = fs[AgentPath(n)]
                    /\ SaysManager(n) => RolePath(n) \notin DOMAIN fs
                    /\ (RolePath(n) \in DOMAIN fs) #
                           (\E j \in 1..Len(ManagersOf(saved_agents)) :
                                ManagersOf(saved_agents)[j] = a)
            IN  Placed(saved_agents[i], saved_agents[i].v[K.name].v)

\* a call saved a manager and a role, copied the role and patched the manager
C25_RoleCopiedManagerPatched ==
    /\ pc = "done"
    /\ outcome = "returned"
    /\ \E i, j \in 1..Len(saved_agents) :
           /\ SaysManager(saved_agents[i].v[K.name].v)
           /\ HasKey(fs[AgentPath(saved_agents[i].v[K.name].v)], K.managed_agents)
           /\ RolePath(saved_agents[i].v[K.name].v) \notin DOMAIN fs
           /\ ~SaysManager(saved_agents[j].v[K.name].v)
           /\ RolePath(saved_agents[j].v[K.name].v) \in DOMAIN fs

\* the workflow files of out_dir
WorkflowFiles ==
    {p \in DOMAIN fs : p.dir = "out" /\ StartsWithAt(p.file, 1, <<"w","o","r","k","f","l","o","w","_">>)}

\* the last agent of saved with the name of saved[i]
LastNamed(saved, i) ==
    saved[CHOOSE j \in 1..Len(saved) :
              /\ saved[j].v[K.name] = saved[i].v[K.name]
              /\ \A k \in (j + 1)..Len(saved) : saved[k].v[K.name] # saved[i].v[K.name]]

\* C26: after any sequence of calls into the same out_dir, out_dir holds one
\* workflow file at most, that of the most recent call that wrote one, each
\* agent file of the last call holds what that call wrote, and the
\* managed_agents of a manager file are those of the last call only.
C26_OverwriteNoVersions ==
    (pc = "done" /\ outcome = "returned") =>
        /\ Cardinality(WorkflowFiles) <= 1
        /\ HasKey(result, K.workflow_yaml) => WorkflowFiles = {WorkflowPath(ts)}
        /\ \A i \in 1..Len(saved_agents) :
               LET File(f, roles) ==
                       /\ Without(f, K.managed_agents) = LastNamed(saved_agents, i)
                       /\ HasKey(f, K.managed_agents) =>
                              Len(f.v[K.managed_agents].v) = Len(roles)
               IN  File(fs[AgentPath(saved_agents[i].v[K.name].v)],
                        SelectSeq(saved_agents, LAMBDA a : ~SaysManager(a.v[K.name].v)))

\* the versions N a produced name carries for base: the name is <base>.<N>,
\* alone or followed by the id and time stamp
ProducedVersions(name, base) ==
    {n \in 0..40 :
        \/ name = base \o <<".">> \o DumpDigits(n)
        \/ StartsWithAt(name, 1, base \o <<".">> \o DumpDigits(n) \o <<" ", "[">>)}

\* C27: within a run, the version of every name generate_new_name produces
\* for a base is greater than the version of every name the run produced
\* for that base before (the names appended to existing_agents are counted).
C27_VersionsIncrease ==
    [][(ver # VNone /\ ver' # VNone /\ ver'.created = ver.created + 1) =>
          \A y \in YamlNames :
              y.base \o y.suffix = ver'.yaml_name =>
                  \A k \in 1..ver.created :
                      LET Earlier(e) ==
                              \A m \in ProducedVersions(e, y.base),
                                 n \in ProducedVersions(ver'.name, y.base) : n > m
                      IN  Earlier(ver.existing_agents[Len(ver.existing_agents) - k + 1].v[K.name].v)]_vars

\* C28: a call of _request issues at most retries HTTP requests, issues
\* another one only after a response with status 429, 500, 502 or 503, never
\* raises, and returns ok = True exactly when the last request it issued
\* succeeded.
C28_BoundedRetries ==
    [][(req # VNone /\ req' # VNone) =>
          /\ req'.issued <= req.retries
          /\ (req'.issued = req.issued + 1 /\ req.issued >= 1) =>
                 (req.last.kind = "status" /\ req.last.status \in {429, 500, 502, 503})
          /\ req'.pc = "done" =>
                 /\ req'.outcome = "returned"
                 /\ req'.result.ok <=>
                        /\ req'.issued >= 1
                        /\ req'.last.kind = "status"
                        /\ req'.last.status \in 200..299]_vars

\* a call with stream got a client error and ended by raising
C28_RaisedOnStream ==
    /\ req # VNone
    /\ req.pc = "done"
    /\ req.stream
    /\ req.outcome = "raised"
    /\ req.last.status = 404

\* C29: run_with_retries calls request_fn at most max_retries times and
\* never after a valid response; it returns the data of the first valid
\* response, raises RuntimeError exactly when max_retries responses were all
\* invalid, and has slept backoff * k after the k-th invalid response except
\* after the last allowed one.
C29_RetriesUntilValid ==
    (retrying # VNone) =>
        LET Calls(n, last) ==
                /\ n <= retrying.max_retries
                /\ \A i \in 1..(n - 1) : ~retrying.requests[i].valid
                /\ retrying.pc = "done" =>
                       /\ retrying.outcome = "returned" <=> (n >= 1 /\ last.valid)
                       /\ retrying.outcome = "returned" =>
                              retrying.result = IF IsStr(last.resp)
                                                THEN ParseDocument(last.resp.v, "json").val
                                                ELSE last.resp
                       /\ retrying.outcome = "RuntimeError" <=>
                              (n = retrying.max_retries /\ (n >= 1 => ~last.valid))
                       /\ retrying.slept = [k \in 1..(n - 1) |-> retrying.backoff * k]
        IN  Calls(Len(retrying.requests),
                  IF retrying.requests = <<>> THEN [resp |-> VNone, valid |-> FALSE]
                  ELSE retrying.requests[Len(retrying.requests)])

\* the third response was the first valid one and was returned after two waits
C29_ThirdAttemptValid ==
    /\ retrying # VNone
    /\ retrying.pc = "done"
    /\ retrying.outcome = "returned"
    /\ Len(retrying.requests) = 3
    /\ Len(retrying.slept) = 2

\* C30: when run_manager_with_usecases is over, results holds exactly one
\* entry per use case, in use-case order, each a normalized entry or the
\* error entry 'Failed after retries', and no use case took more than
\* max_retries inference attempts.
C30_OneEntryPerUseCase ==
    (batch # VNone /\ batch.pc = "done") =>
        /\ batch.outcome = "returned"
        /\ batch.results # VNone
        /\ Len(batch.results) = Len(batch.usecases)
        /\ \A i \in 1..Len(batch.usecases) :
               /\ batch.results[i].usecase = batch.usecases[i]
               /\ batch.results[i].kind \in {"normalized", "error"}
        /\ batch.posts <= batch.max_retries * Len(batch.usecases)

\* the call is over with two use cases in the file and no results list
C30_RaisedBeforeLoop ==
    /\ batch # VNone
    /\ batch.pc = "done"
    /\ batch.outcome = "AttributeError"
    /\ Len(batch.usecases) = 2
    /\ batch.results = VNone

====
